---- MODULE Spec2Model ----
(***************************************************************************)
(* The sans-I/O session of sony-protocol (struct Device, lib.rs) together  *)
(* with the packet codec of v1/mod.rs, as a state machine.                 *)
(*                                                                         *)
(* Bytes are naturals 0..255.  Option<T> is a sequence of length 0 (None)  *)
(* or 1 (Some).  Buffers are modelled by the prefix that is still read:    *)
(* read_buf holds read_buf[0..end) of the code (bytes past `end` are never *)
(* read), write_buf holds write_buf[0..e) where e is the end of the        *)
(* outstanding frame (0 without one): every read of a byte past e is       *)
(* preceded, in the same call, by the write of that byte.                  *)
(* Time is in milliseconds; an Instant is the number of milliseconds since *)
(* the session was created.  A Rust panic is the terminal state            *)
(* panicked = TRUE.                                                        *)
(***************************************************************************)
EXTENDS Integers, Sequences, FiniteSets, TLC

\* ------------------------------------------------------------------------
\* Program constants
\* ------------------------------------------------------------------------
MESSAGE_HEADER == 62
MESSAGE_TRAILER == 60
MESSAGE_ESCAPE == 61
MESSAGE_ESCAPE_MASK == 239
RETRY_DURATION == 1000
READ_BUF_LEN == 1024
WRITE_BUF_LEN == 1024

\* ------------------------------------------------------------------------
\* Bounds of the model
\* ------------------------------------------------------------------------
\* the clock stops advancing at MaxTime (ms)
MaxTime == 2100
\* received_packet is not called once the read cursor `end` would pass this
MaxBuffered == 22
\* the peer has at most MaxWire acks on their way
MaxWire == 2
\* frames handed out for the first time against the acknowledging peer
MaxEmitted == 3

\* ------------------------------------------------------------------------
\* Option, bytes
\* ------------------------------------------------------------------------
None == <<>>
Some(x) == <<x>>
IsSome(o) == o # <<>>
Unwrap(o) == o[1]

Byte == 0..255

\* the value of a `let` binding: the element of a singleton set
the(S) == CHOOSE x \in S : TRUE

RECURSIVE BitOrN(_, _, _)
\* bitwise OR of the low n bits of a and b
BitOrN(a, b, n) ==
    IF n = 0 THEN 0
    ELSE (IF a % 2 = 1 \/ b % 2 = 1 THEN 1 ELSE 0) + 2 * BitOrN(a \div 2, b \div 2, n - 1)

\* u8 | u8
BitOr(a, b) == BitOrN(a, b, 8)
\* u8::not
BitNot(a) == 255 - a
\* u8::wrapping_add, u8::wrapping_sub
wrapping_add(a, b) == (a + b) % 256
wrapping_sub(a, b) == (a - b + 256) % 256

RECURSIVE SumBytes(_)
\* iter().fold(0, |acc: u8, x| acc.wrapping_add(*x))
SumBytes(s) == IF s = <<>> THEN 0 ELSE wrapping_add(SumBytes(Tail(s)), Head(s))

\* mutant of to_be_bytes: the bytes in little-endian order
to_le_bytes(n) ==
    << n % 256, (n \div 256) % 256, (n \div 65536) % 256, (n \div 16777216) % 256 >>

\* u32::to_be_bytes
to_be_bytes(n) ==
    << (n \div 16777216) % 256, (n \div 65536) % 256, (n \div 256) % 256, n % 256 >>
\* u32::from_be_bytes
from_be_bytes(b) == ((b[1] * 256 + b[2]) * 256 + b[3]) * 256 + b[4]

\* the slice value[from..to) of a 1-based sequence, with 0-based bounds
Slice(s, from, to) == SubSeq(s, from + 1, to)

\* n zero bytes
Zeros(n) == [i \in 1..n |-> 0]

\* buf with `bytes` stored at 0-based offset `at`; untouched cells of the
\* array beyond the modelled prefix are 0
WriteAt(buf, at, bytes) ==
    (IF at <= Len(buf) THEN SubSeq(buf, 1, at) ELSE buf \o Zeros(at - Len(buf)))
    \o bytes
    \o SubSeq(buf, at + Len(bytes) + 1, Len(buf))

\* ------------------------------------------------------------------------
\* Packet model (v1/mod.rs)
\* ------------------------------------------------------------------------
Ack == [t |-> "Ack"]
Command2 == [t |-> "Command2"]
Command1(p) == [t |-> "Command1", p |-> p]
Packet(seqnum, content) == [seqnum |-> seqnum, content |-> content]
is_ack(packet) == packet.content = Ack

AncPayload(mode, fov, level) ==
    [anc_mode |-> mode, focus_on_voice |-> fov, ambiant_level |-> level]
AncMode == {"Off", "AmbiantMode", "On", "Wind"}

\* BatteryType as u8
BatteryTypeByte(b) == CASE b = "Single" -> 0 [] b = "Dual" -> 1 [] b = "Case" -> 2

\* results of the fallible operations
Ok(v) == [st |-> "Ok", v |-> v]
Err(e) == [st |-> "Err", e |-> e]
Panic == [st |-> "Panic"]

\* mutant of AncPayload_write_into: the level is written for every mode
AncPayload_write_into_level(v) ==
    << 2,
       IF v.anc_mode = "Off" THEN 0 ELSE 17,
       2,
       CASE v.anc_mode \in {"Off", "AmbiantMode"} -> 0
         [] v.anc_mode = "On" -> 2
         [] v.anc_mode = "Wind" -> 1,
       1,
       IF v.focus_on_voice THEN 1 ELSE 0,
       v.ambiant_level >>

\* impl Payload for AncPayload: the 7 bytes written
AncPayload_write_into(v) ==
    << 2,
       IF v.anc_mode = "Off" THEN 0 ELSE 17,
       2,
       CASE v.anc_mode \in {"Off", "AmbiantMode"} -> 0
         [] v.anc_mode = "On" -> 2
         [] v.anc_mode = "Wind" -> 1,
       1,
       IF v.focus_on_voice THEN 1 ELSE 0,
       IF v.anc_mode \in {"Off", "AmbiantMode"} THEN v.ambiant_level ELSE 1 >>

\* payload kinds whose encoder returns Err(NotImplemented(code))
NotImplementedWrite ==
    {"FwVersionRequest", "FwVersionReply", "Init2Request", "Init2Reply",
     "BatteryLevelReply", "BatteryLevelNotify", "AudioCodecRequest",
     "AudioCodecReply", "AudioCodecNotify", "PowerOff",
     "SoundPositionOrModeGet", "SoundPositionOrModeRet",
     "SoundPositionOrModeSet", "SoundPositionOrModeNotify", "EqualizerGet",
     "EqualizerRet", "EqualizerSet", "EqualizerNotify", "VolumeGet",
     "VolumeRet", "VolumeSet", "VolumeNotify",
     "NoiseCancellingOptimizerStart", "NoiseCancellingOptimizerStatus",
     "NoiseCancellingOptimizerStateGet", "NoiseCancellingOptimizerStateRet",
     "NoiseCancellingOptimizerStateNotify", "TouchSensorGet",
     "TouchSensorRet", "TouchSensorSet", "TouchSensorNotify",
     "AudioUpsamplingGet", "AudioUpsamplingRet", "AudioUpsamplingSet",
     "AudioUpsamplingNotify", "AutomaticPowerOffButtonModeGet",
     "AutomaticPowerOffButtonModeRet", "AutomaticPowerOffButtonModeSet",
     "AutomaticPowerOffButtonModeNotify", "SpeakToChatConfigGet",
     "SpeakToChatConfigRet", "SpeakToChatConfigSet",
     "SpeakToChatConfigNotify", "JsonGet", "JsonRet", "SomethingGet",
     "SomethingRet"}

\* impl Payload for PayloadCommand1: Ok(body bytes) or Err(NotImplemented)
PayloadCommand1_write_into(p) ==
    CASE p.k = "InitRequest" -> Ok(<<0, 0>>)
      [] p.k = "InitReply" -> Ok(<<1>> \o p.b)
      [] p.k = "BatteryLevelRequest" -> Ok(<<16, BatteryTypeByte(p.bt)>>)
      [] p.k = "AmbientSoundControlGet" -> Ok(<<102, 2>>)
      [] p.k = "AmbientSoundControlRet" -> Ok(<<103>> \o AncPayload_write_into(p.v))
      [] p.k = "AmbientSoundControlSet" -> Ok(<<104>> \o AncPayload_write_into(p.v))
      [] p.k = "AmbientSoundControlNotify" -> Ok(<<105>> \o AncPayload_write_into(p.v))
      [] p.k \in NotImplementedWrite -> Err([e |-> "NotImplemented", what |-> p.k])

\* Packet::write_payload: Command2 is todo!()
write_payload(packet) ==
    CASE packet.content.t = "Ack" -> Ok(<<>>)
      [] packet.content.t = "Command1" -> PayloadCommand1_write_into(packet.content.p)
      [] packet.content.t = "Command2" -> Panic

\* the kind byte written at buf[1]
KindByte(content) ==
    CASE content.t = "Ack" -> 1
      [] content.t = "Command1" -> 12
      [] content.t = "Command2" -> 14

\* mutant of Checksum: the header byte is summed too
ChecksumWithHeader(frame) == SumBytes(frame)

\* the checksum written at buf[end]: the wrapping sum of buf[1..end]
Checksum(frame) == SumBytes(Slice(frame, 1, Len(frame)))

\* the end of Packet::write_into: the frame is in place when it fits the
\* array (an index past the array panics)
store_frame(frame, array, at) ==
    IF at + Len(frame) > WRITE_BUF_LEN
    THEN [res |-> Panic, buf |-> array]
    ELSE [res |-> Ok(Len(frame)), buf |-> WriteAt(array, at, frame)]

\* v1/mod.rs:118-126: checksum and trailer after the bytes buf[0..end)
close_frame(upto, array, at) == store_frame(upto \o << Checksum(upto), 60 >>, array, at)

\* v1/mod.rs:115-116: the outcome of write_payload; on its error paths the
\* three bytes stored before it stay stored
write_body(head, pl, array, at) ==
    IF pl.st = "Ok"
    THEN close_frame(head \o to_be_bytes(Len(pl.v)) \o pl.v, array, at)
    ELSE [res |-> pl, buf |-> WriteAt(array, at, head)]

\* Packet::write_into(self, buf) where buf = array[at..]: the result and the
\* new array
write_into(packet, array, at) ==
    the({ write_body(<< 62, KindByte(packet.content), packet.seqnum >>, pl, array, at) :
          pl \in { write_payload(packet) } })

\* impl TryFrom<u8> for BatteryType
BatteryType_try_from(value) ==
    CASE value = 0 -> Ok("Single")
      [] value = 1 -> Ok("Dual")
      [] value = 2 -> Ok("Case")
      [] OTHER -> Err([e |-> "InvalidValueForEnum", what |-> "battery type", value |-> value])

\* mutant of battery_state_of: a Dual body is never collapsed
battery_state_of_dual(bt, value) ==
    IF bt \in {"Single", "Case"}
    THEN IF Len(value) < 3 THEN Panic
         ELSE Ok([t |-> bt, level |-> value[2], is_charging |-> (value[3] = 1)])
    ELSE IF Len(value) < 5 THEN Panic
    ELSE Ok([t |-> "Dual", level_left |-> value[2],
             is_left_charging |-> (value[3] = 1),
             level_right |-> value[4],
             is_right_charging |-> (value[5] = 1)])

\* the match of BatteryState::try_from on the battery type; an index past
\* the slice panics
battery_state_of(bt, value) ==
    IF bt \in {"Single", "Case"}
    THEN IF Len(value) < 3 THEN Panic
         ELSE Ok([t |-> bt, level |-> value[2], is_charging |-> (value[3] = 1)])
    ELSE IF Len(value) < 2 THEN Panic
    ELSE IF value[2] = 0
    THEN IF Len(value) < 5 THEN Panic
         ELSE Ok([t |-> "Single", level |-> value[4], is_charging |-> (value[5] = 1)])
    ELSE IF Len(value) < 4 THEN Panic
    ELSE IF value[4] = 0
    THEN Ok([t |-> "Single", level |-> value[2], is_charging |-> (value[3] = 1)])
    ELSE IF Len(value) < 5 THEN Panic
    ELSE Ok([t |-> "Dual", level_left |-> value[2],
             is_left_charging |-> (value[3] = 1),
             level_right |-> value[4],
             is_right_charging |-> (value[5] = 1)])

\* the `?` on BatteryType::try_from(value[0])
battery_typed(bt, value) == IF bt.st = "Err" THEN bt ELSE battery_state_of(bt.v, value)

\* impl TryFrom<&[u8]> for BatteryState
BatteryState_try_from(value) ==
    IF Len(value) < 1 THEN Panic
    ELSE battery_typed(BatteryType_try_from(value[1]), value)

\* the anc_mode match of AncPayload::try_from; "unimplemented" is the
\* unimplemented!() arm
AncModeOf(value) ==
    IF value[2] = 0 THEN "Off"
    ELSE IF value[2] = 1
    THEN IF value[3] = 0
         THEN (IF value[4] = 0 THEN "AmbiantMode"
               ELSE IF value[4] = 1 THEN "On" ELSE "unimplemented")
         ELSE IF value[3] = 2
         THEN (IF value[4] = 0 THEN "AmbiantMode"
               ELSE IF value[4] = 1 THEN "Wind"
               ELSE IF value[4] = 2 THEN "On" ELSE "unimplemented")
         ELSE "unimplemented"
    ELSE "unimplemented"

\* v1/mod.rs:568-575: the payload built from the decoded mode
anc_of(mode, value) ==
    IF mode = "unimplemented" THEN Panic
    ELSE Ok(AncPayload(mode, value[6] = 1, value[7]))

\* impl TryFrom<&[u8]> for AncPayload: assert_eq!(7, value.len())
AncPayload_try_from(value) ==
    IF Len(value) # 7 THEN Panic ELSE anc_of(AncModeOf(value), value)

\* mutant of NotImplementedCode: 0x88 in the place of 0x89
NotImplementedCode88 ==
    {4, 5, 6, 7, 24, 25, 27, 34} \cup (70..73) \cup (86..89) \cup (166..169)
    \cup {132, 133, 134, 135, 136} \cup (214..217) \cup (230..233)
    \cup (246..249) \cup (250..253) \cup {196, 201, 144, 145}

\* body codes whose decoder returns Err(NotImplemented(..))
NotImplementedCode ==
    {4, 5, 6, 7, 24, 25, 27, 34} \cup (70..73) \cup (86..89) \cup (166..169)
    \cup {132, 133, 134, 135, 137} \cup (214..217) \cup (230..233)
    \cup (246..249) \cup (250..253) \cup {196, 201, 144, 145}

\* Ok(Ctor(x)) from Ok(x), errors unchanged: the `?` inside Ok(Self::X(..?))
MapOk(r, k, field) ==
    IF r.st = "Ok"
    THEN Ok(IF field = "s" THEN [k |-> k, s |-> r.v]
            ELSE IF field = "bt" THEN [k |-> k, bt |-> r.v]
            ELSE [k |-> k, v |-> r.v])
    ELSE r

\* mutant of payload_of: the battery decoder is handed the whole body
payload_of_whole(c, value, rest) ==
    CASE c = 0 -> Ok([k |-> "InitRequest"])
      [] c = 1 -> IF Len(value) > 3
                  THEN Ok([k |-> "InitReply", b |-> << value[2], value[3], value[4] >>])
                  ELSE Panic
      [] c = 16 -> IF Len(value) < 2 THEN Panic
                   ELSE MapOk(BatteryType_try_from(value[2]), "BatteryLevelRequest", "bt")
      [] c \in {17, 19} ->
           MapOk(BatteryState_try_from(value),
                 IF c = 17 THEN "BatteryLevelReply" ELSE "BatteryLevelNotify", "s")
      [] c = 102 -> Ok([k |-> "AmbientSoundControlGet"])
      [] c \in {103, 104, 105} ->
           MapOk(AncPayload_try_from(rest),
                 CASE c = 103 -> "AmbientSoundControlRet"
                   [] c = 104 -> "AmbientSoundControlSet"
                   [] c = 105 -> "AmbientSoundControlNotify", "v")
      [] c \in NotImplementedCode -> Err([e |-> "NotImplemented", code |-> c])
      [] OTHER -> Err([e |-> "UnknownPayloadType", code |-> c])

\* the match of PayloadCommand1::try_from on c = value[0]; rest = value[1..]
payload_of(c, value, rest) ==
    CASE c = 0 -> Ok([k |-> "InitRequest"])
      [] c = 1 -> IF Len(value) > 3
                  THEN Ok([k |-> "InitReply", b |-> << value[2], value[3], value[4] >>])
                  ELSE Panic
      [] c = 16 -> IF Len(value) < 2 THEN Panic
                   ELSE MapOk(BatteryType_try_from(value[2]), "BatteryLevelRequest", "bt")
      [] c \in {17, 19} ->
           MapOk(BatteryState_try_from(rest),
                 IF c = 17 THEN "BatteryLevelReply" ELSE "BatteryLevelNotify", "s")
      [] c = 102 -> Ok([k |-> "AmbientSoundControlGet"])
      [] c \in {103, 104, 105} ->
           MapOk(AncPayload_try_from(rest),
                 CASE c = 103 -> "AmbientSoundControlRet"
                   [] c = 104 -> "AmbientSoundControlSet"
                   [] c = 105 -> "AmbientSoundControlNotify", "v")
      [] c \in NotImplementedCode -> Err([e |-> "NotImplemented", code |-> c])
      [] OTHER -> Err([e |-> "UnknownPayloadType", code |-> c])

\* impl TryFrom<&[u8]> for PayloadCommand1; value[0] of an empty body panics
PayloadCommand1_try_from(value) ==
    IF Len(value) < 1 THEN Panic
    ELSE payload_of(value[1], value, Slice(value, 1, Len(value)))

\* v1/mod.rs:452-455: the payload result becomes the packet content; an
\* error carries the seqnum (TryFromPacketError { seqnum, error })
command1_of(seqnum, payload) ==
    CASE payload.st = "Ok" -> Ok(Packet(seqnum, Command1(payload.v)))
      [] payload.st = "Err" -> Err([seqnum |-> seqnum, error |-> payload.e])
      [] OTHER -> Panic

\* v1/mod.rs:448-450: the payload slice value[7..7 + packet_size]
command1_body(value, packet_size) ==
    IF 7 + packet_size > Len(value) THEN Panic
    ELSE the({ command1_of(value[3], payload) :
               payload \in { PayloadCommand1_try_from(Slice(value, 7, 7 + packet_size)) } })

\* impl TryFrom<&[u8]> for Packet.  value[2] is read first; an unknown kind
\* is todo!(); the length and payload slices panic when out of range.
Packet_try_from(value) ==
    IF Len(value) < 3 THEN Panic
    ELSE CASE value[2] = 1 -> Ok(Packet(value[3], Ack))
           [] value[2] = 12 ->
                IF Len(value) < 7 THEN Panic
                ELSE command1_body(value, from_be_bytes(Slice(value, 3, 7)))
           [] value[2] = 14 -> Ok(Packet(value[3], Command2))
           [] OTHER -> Panic

\* ------------------------------------------------------------------------
\* Session state (struct Device, lib.rs)
\* ------------------------------------------------------------------------
VARIABLES
    pending_packet,  \* Option<Packet>
    read_buf,        \* read_buf[0..end); <<>> while reading is None
    write_buf,       \* write_buf[0..end of the outstanding frame)
    reading,         \* Option<(start, end)>
    sending,         \* Option<[r: <<start, end>>, i: Option<Instant>, d: Duration]>
    seqnum,          \* u8
    now,             \* the clock, Instant::now()
    panicked,        \* a call has panicked
    ret,             \* what the most recent call returned
    last_sent_at,    \* history: Some(time) poll last returned the outstanding frame
    codec,           \* the packet under the codec operations (SpecCodec)
    facade           \* struct SonyDevice and its callers (SpecFacade)

devvars == << pending_packet, read_buf, write_buf, reading, sending, seqnum >>
vars == << pending_packet, read_buf, write_buf, reading, sending, seqnum, now,
           panicked, ret, last_sent_at, codec, facade >>

\* values returned by the calls; every result has the same fields
Result(op, kind, packet, bytes, deadline, n, err) ==
    [op |-> op, kind |-> kind, packet |-> packet, bytes |-> bytes,
     deadline |-> deadline, n |-> n, err |-> err]
NoResult == Result("none", "none", None, <<>>, None, 0, None)
WaitingPacket(deadline) == Result("poll", "WaitingPacket", None, <<>>, deadline, 0, None)
ReceivedPacket(packet) == Result("poll", "ReceivedPacket", Some(packet), <<>>, None, 0, None)
SendPacket(bytes) == Result("poll", "SendPacket", None, bytes, None, 0, None)
PollErr(e) == Result("poll", "Err", None, <<>>, None, 0, Some(e))
Panicked(op) == Result(op, "Panic", None, <<>>, None, 0, None)

\* Instant::elapsed(): now - i, saturating at zero for an instant in the future
elapsed(i, t) == IF t >= i THEN t - i ELSE 0

\* mutant of sent_instant: the instant of the hand-out itself is stored
sent_instant_now(t, d) == t

\* the instant stored with the outstanding frame when poll hands it out
\* (lib.rs:106 and :113): Instant::now() + d
sent_instant(t, d) == t + d

\* lib.rs:105, the retransmission test on the stored instant
retry_due(i, t) == elapsed(i, t) > RETRY_DURATION

\* mutant of ack_seqnum: the ack echoes the seqnum it acknowledges
ack_seqnum_echo(s) == s

\* lib.rs:133, the seqnum of an ack for a packet with seqnum s
ack_seqnum(s) == wrapping_sub(1, s)

\* anyhow::format_err!("already awaiting response")
AlreadyAwaiting == [e |-> "already awaiting response"]

\* lib.rs:140: Ok(start..start + n) from the Ok(n) of write_into
range_of(start, w) ==
    IF w.res.st = "Ok"
    THEN [res |-> Ok(<< start, start + w.res.v >>), buf |-> w.buf]
    ELSE w

\* lib.rs:126-134: the seqnum of the packet encoded from `given`
packet_seqnum(command, given) == IF command # Ack THEN given ELSE ack_seqnum(given)

\* mutant of write_start: every frame is written at the start of the buffer
write_start_zero(snd) == 0

\* lib.rs:138: the frame goes behind the outstanding frame
write_start(snd) == IF IsSome(snd) THEN Unwrap(snd).r[2] ELSE 0

\* Device::encode_packet(command, seqnum) on the fields it reads: the result
\* (Ok(range), Err or Panic) and the new write_buf
encode_packet(command, seqnum_arg, snd, seq, wbuf) ==
    IF command # Ack /\ IsSome(snd)
    THEN [res |-> Err(AlreadyAwaiting), buf |-> wbuf]
    ELSE the({ range_of(write_start(snd), w) :
                  w \in { write_into(Packet(packet_seqnum(command,
                                                          IF IsSome(seqnum_arg)
                                                          THEN Unwrap(seqnum_arg)
                                                          ELSE seq),
                                            command),
                                     wbuf, write_start(snd)) } })

RECURSIVE position(_, _, _)
\* iter().position(|c| *c == b) from 0-based index k on: the index or -1
position(s, b, k) ==
    IF k >= Len(s) THEN -1
    ELSE IF s[k + 1] = b THEN k
    ELSE position(s, b, k + 1)

RECURSIVE intake_unbounded(_, _, _)
\* mutant of intake: the loop does not look at the capacity of read_buf
intake_unbounded(content, content_index, buf) ==
    IF content_index < Len(content)
    THEN IF content[content_index + 1] = MESSAGE_ESCAPE
         THEN IF content_index + 1 >= Len(content)
              THEN [st |-> "Panic", buf |-> buf, n |-> content_index]
              ELSE intake_unbounded(content, content_index + 2,
                                    Append(buf, BitOr(content[content_index + 2],
                                                      BitNot(MESSAGE_ESCAPE_MASK))))
         ELSE intake_unbounded(content, content_index + 1,
                               Append(buf, content[content_index + 1]))
    ELSE [st |-> "Ok", buf |-> buf, n |-> content_index]

RECURSIVE intake(_, _, _)
\* the loop of Device::received_packet: buf is read_buf[0..index); an escape
\* byte that ends the input indexes content out of range and panics
intake(content, content_index, buf) ==
    IF content_index < Len(content) /\ Len(buf) < READ_BUF_LEN - 1
    THEN IF content[content_index + 1] = MESSAGE_ESCAPE
         THEN IF content_index + 1 >= Len(content)
              THEN [st |-> "Panic", buf |-> buf, n |-> content_index]
              ELSE intake(content, content_index + 2,
                          Append(buf, BitOr(content[content_index + 2],
                                            BitNot(MESSAGE_ESCAPE_MASK))))
         ELSE intake(content, content_index + 1, Append(buf, content[content_index + 1]))
    ELSE [st |-> "Ok", buf |-> buf, n |-> content_index]

\* the part of write_buf that is read again: the outstanding frame and what
\* lies before it
retained(wbuf, snd) == IF IsSome(snd) THEN SubSeq(wbuf, 1, Unwrap(snd).r[2]) ELSE <<>>

\* The fields of the session as one value, with what the call returns (ret)
\* and whether it panicked.
Device(pp, rbuf, wbuf, rd, snd, seq) ==
    [pending_packet |-> pp, read_buf |-> rbuf, write_buf |-> wbuf, reading |-> rd,
     sending |-> snd, seqnum |-> seq, ret |-> NoResult, panicked |-> FALSE]

\* a panic inside `op`: the fields are as the call left them
panic_in(dev, op) == [dev EXCEPT !.panicked = TRUE, !.ret = Panicked(op)]

\* lib.rs:84: the extracted frame read_buf[start..pos) leaves the cursor
advance(dev, pos, end) ==
    IF pos = end
    THEN [dev EXCEPT !.reading = None, !.read_buf = <<>>]
    ELSE [dev EXCEPT !.reading = Some(<< pos, end >>)]

\* lib.rs:92-94: the outcome of encode_packet(Ack, Some(seqnum))
ack_encoded(dev, enc) ==
    CASE enc.res.st = "Ok" ->
           [dev EXCEPT !.write_buf = enc.buf,
                       !.ret = SendPacket(Slice(enc.buf, enc.res.v[1], enc.res.v[2]))]
      [] enc.res.st = "Err" -> [dev EXCEPT !.write_buf = enc.buf, !.ret = PollErr(enc.res.e)]
      [] OTHER -> panic_in([dev EXCEPT !.write_buf = enc.buf], "poll")

\* mutant of on_packet: the packet is returned at once, without its ack
on_packet_deliver(dev, packet) == [dev EXCEPT !.ret = ReceivedPacket(packet)]

\* lib.rs:87-94: a non-ack packet is kept and its ack is encoded
on_packet(dev, packet) ==
    the({ ack_encoded([dev EXCEPT !.pending_packet = Some(packet)], enc) :
          enc \in { encode_packet(Ack, Some(packet.seqnum), dev.sending, dev.seqnum,
                                  dev.write_buf) } })

\* mutant of on_ack: the ack clears the send and its seqnum is not adopted
on_ack_keep_seqnum(dev, packet) ==
    [dev EXCEPT !.sending = None, !.ret = ReceivedPacket(packet)]

\* mutant of on_ack: the seqnum of the ack is adopted without a send
on_ack_adopt(dev, packet) ==
    [dev EXCEPT !.seqnum = packet.seqnum, !.sending = None,
                !.ret = ReceivedPacket(packet)]

\* lib.rs:96-101: an ack ends the outstanding send, if there is one
on_ack(dev, packet) ==
    IF IsSome(dev.sending)
    THEN [dev EXCEPT !.seqnum = packet.seqnum, !.sending = None,
                     !.ret = ReceivedPacket(packet)]
    ELSE [dev EXCEPT !.ret = ReceivedPacket(packet)]

\* lib.rs:82-102: the outcome of Packet::try_from on the extracted frame; an
\* error returns before the cursor moves
on_parsed(dev, pos, end, parsed) ==
    CASE parsed.st = "Panic" -> panic_in(dev, "poll")
      [] parsed.st = "Err" -> [dev EXCEPT !.ret = PollErr(parsed.e)]
      [] OTHER -> the({ IF is_ack(parsed.v)
                        THEN on_ack(advanced, parsed.v)
                        ELSE on_packet(advanced, parsed.v) :
                        advanced \in { advance(dev, pos, end) } })

\* lib.rs:75-82: p is the position of the first trailer in
\* read_buf[start..end), -1 without one (the unwrap panics)
on_position(dev, start, end, p) ==
    IF p = -1 THEN panic_in(dev, "poll")
    ELSE the({ on_parsed(dev, start + p + 1, end, parsed) :
               parsed \in { Packet_try_from(Slice(dev.read_buf, start, start + p + 1)) } })

\* lib.rs:74-102: the branch for buffered input
poll_reading(dev, start, end) ==
    the({ on_position(dev, start, end, p) :
          p \in { position(Slice(dev.read_buf, start, end), MESSAGE_TRAILER, 0) } })

\* lib.rs:106-107 and 113-114: the outstanding frame is handed out
hand_out(dev, snd, t) ==
    [dev EXCEPT !.sending = Some([snd EXCEPT !.i = Some(sent_instant(t, snd.d))]),
                !.ret = SendPacket(Slice(dev.write_buf, snd.r[1], snd.r[2]))]

\* lib.rs:103-115: the branch for the outstanding send
poll_sending(dev, snd, t) ==
    IF IsSome(snd.i)
    THEN IF retry_due(Unwrap(snd.i), t)
         THEN hand_out(dev, snd, t)
         ELSE [dev EXCEPT !.ret = WaitingPacket(Some(Unwrap(snd.i)))]
    ELSE hand_out(dev, snd, t)

\* mutant of poll_step: the outstanding send is looked at before the
\* buffered input
poll_step_send_first(dev, t) ==
    IF IsSome(dev.pending_packet)
    THEN [dev EXCEPT !.pending_packet = None,
                     !.ret = ReceivedPacket(Unwrap(dev.pending_packet))]
    ELSE IF IsSome(dev.sending)
            /\ (IsSome(Unwrap(dev.sending).i) => retry_due(Unwrap(Unwrap(dev.sending).i), t))
    THEN poll_sending(dev, Unwrap(dev.sending), t)
    ELSE IF IsSome(dev.reading)
    THEN poll_reading(dev, Unwrap(dev.reading)[1], Unwrap(dev.reading)[2])
    ELSE IF IsSome(dev.sending)
    THEN poll_sending(dev, Unwrap(dev.sending), t)
    ELSE [dev EXCEPT !.ret = WaitingPacket(None)]

\* Device::poll at time t
poll_step(dev, t) ==
    IF IsSome(dev.pending_packet)
    THEN [dev EXCEPT !.pending_packet = None,
                     !.ret = ReceivedPacket(Unwrap(dev.pending_packet))]
    ELSE IF IsSome(dev.reading)
    THEN poll_reading(dev, Unwrap(dev.reading)[1], Unwrap(dev.reading)[2])
    ELSE IF IsSome(dev.sending)
    THEN poll_sending(dev, Unwrap(dev.sending), t)
    ELSE [dev EXCEPT !.ret = WaitingPacket(None)]

\* the result of Device::send_packet
SendResult(res) ==
    Result("send_packet", res.st, None, <<>>, None, 0,
           IF res.st = "Err" THEN Some(res.e) ELSE None)

\* lib.rs:148-150: the outcome of encode_packet(content, None)
send_encoded(dev, enc) ==
    CASE enc.res.st = "Ok" ->
           [dev EXCEPT !.sending = Some([r |-> enc.res.v, i |-> None, d |-> RETRY_DURATION]),
                       !.write_buf = enc.buf, !.ret = SendResult(Ok(<<>>))]
      [] enc.res.st = "Err" -> [dev EXCEPT !.write_buf = enc.buf, !.ret = SendResult(enc.res)]
      [] OTHER -> panic_in([dev EXCEPT !.write_buf = enc.buf], "send_packet")

\* mutant of send_packet_step: the outstanding send is not looked at
send_packet_step_unchecked(dev, content) ==
    the({ send_encoded(dev, enc) :
          enc \in { encode_packet(content, None, None, dev.seqnum, dev.write_buf) } })

\* Device::send_packet(content)
send_packet_step(dev, content) ==
    IF IsSome(dev.sending)
    THEN [dev EXCEPT !.ret = SendResult(Err(AlreadyAwaiting))]
    ELSE the({ send_encoded(dev, enc) :
               enc \in { encode_packet(content, None, dev.sending, dev.seqnum,
                                       dev.write_buf) } })

\* lib.rs:66-68: the outcome of the intake loop
intake_done(dev, start, r) ==
    IF r.st = "Panic"
    THEN panic_in(dev, "received_packet")
    ELSE [dev EXCEPT !.read_buf = r.buf, !.reading = Some(<< start, Len(r.buf) >>),
                     !.ret = Result("received_packet", "Ok", None, <<>>, None, r.n, None)]

\* Device::received_packet(content)
received_packet_step(dev, content) ==
    the({ intake_done(dev, IF IsSome(dev.reading) THEN Unwrap(dev.reading)[1] ELSE 0, r) :
          r \in { intake(content, 0, dev.read_buf) } })

\* ------------------------------------------------------------------------
\* Inputs
\* ------------------------------------------------------------------------
InitRequest == Command1([k |-> "InitRequest"])
AncSet3C == Command1([k |-> "AmbientSoundControlSet", v |-> AncPayload("AmbiantMode", FALSE, 60)])
FwVersionRequest == Command1([k |-> "FwVersionRequest"])

\* payloads handed to send_packet
Contents == { InitRequest, AncSet3C, FwVersionRequest }

\* byte runs handed to received_packet, as they arrive from the device
AckFrame0 == << 62, 1, 0, 0, 0, 0, 0, 1, 60 >>
AckFrame1 == << 62, 1, 1, 0, 0, 0, 0, 2, 60 >>
InitReplyFrame1 == << 62, 12, 1, 0, 0, 0, 4, 1, 0, 112, 0, 130, 60 >>
Command2Frame0 == << 62, 14, 0, 0, 0, 0, 0, 14, 60 >>
FwVersionReplyFrame0 == << 62, 12, 0, 0, 0, 0, 1, 5, 18, 60 >>
Chunks == { AckFrame0, AckFrame1, InitReplyFrame1, Command2Frame0, FwVersionReplyFrame0 }

\* an AmbientSoundControlNotify frame (AmbiantMode, focus on voice, level
\* 0x3C), seqnum 0: as decoded, and on the wire with the body byte 0x3C
\* escaped as 3D 2C
NotifyFrame3C == << 62, 12, 0, 0, 0, 0, 8, 105, 2, 1, 2, 0, 1, 1, 60, 192, 60 >>
EscNotifyFrame == << 62, 12, 0, 0, 0, 0, 8, 105, 2, 1, 2, 0, 1, 1, 61, 44, 192, 60 >>
\* the same wire bytes in two reads, cut behind the escape byte
EscHead == SubSeq(EscNotifyFrame, 1, 15)
EscTail == SubSeq(EscNotifyFrame, 16, 18)
\* the InitReply frame in two reads, cut in the middle
InitReplyHead == SubSeq(InitReplyFrame1, 1, 5)
InitReplyTail == SubSeq(InitReplyFrame1, 6, 13)
\* trailer-terminated frames: a kind byte that is none of 0x01/0x0C/0x0E, a
\* declared body length of 9 with 2 body bytes present, and a frame shorter
\* than the fixed header
UnknownKindFrame == << 62, 2, 0, 0, 0, 0, 0, 2, 60 >>
LongLenFrame == << 62, 12, 0, 0, 0, 0, 9, 0, 0, 21, 60 >>
ShortFrame == << 62, 60 >>
MalformedFrames == { UnknownKindFrame, LongLenFrame, ShortFrame }
RawChunks ==
    { InitReplyFrame1, EscNotifyFrame, EscHead, EscTail, InitReplyHead, InitReplyTail }
    \cup MalformedFrames

\* what the peer puts on the wire for a byte behind the header: 3C, 3D and
\* 3E go as 3D and the byte with bit 4 cleared (undone at lib.rs:55-57)
WireByte(b) == IF b \in { 60, 61, 62 } THEN << 61, b - 16 >> ELSE << b >>

RECURSIVE Wire(_)
Wire(bytes) == IF bytes = <<>> THEN <<>> ELSE WireByte(Head(bytes)) \o Wire(Tail(bytes))

\* the InitReply frame with seqnum s on the wire
ReplyFrameOf(s) ==
    << 62 >> \o Wire(<< 12, s, 0, 0, 0, 4, 1, 0, 112, 0, (129 + s) % 256 >>) \o << 60 >>

\* every kind of PacketContent handed to send_packet
AnyContents == Contents \cup { Ack, Command2 }

\* packets handed to Packet::write_into
SeqnumSamples == { 0, 1, 46, 60, 61, 62, 197, 255 }
LevelSamples == { 0, 1, 60, 170, 255 }
AncPayloads ==
    { AncPayload(mode, fov, level) :
        mode \in AncMode, fov \in BOOLEAN, level \in LevelSamples }
CodecContents ==
    { Ack, Command2, InitRequest, FwVersionRequest,
      Command1([k |-> "InitReply", b |-> << 0, 112, 0 >>]),
      Command1([k |-> "AmbientSoundControlGet"]) }
    \cup { Command1([k |-> "BatteryLevelRequest", bt |-> bt]) :
             bt \in {"Single", "Dual", "Case"} }
    \cup { Command1([k |-> k, v |-> v]) :
             k \in {"AmbientSoundControlRet", "AmbientSoundControlSet",
                    "AmbientSoundControlNotify"},
             v \in AncPayloads }
CodecPackets == { Packet(s, c) : s \in SeqnumSamples, c \in CodecContents }

\* inputs of the payload encoders and decoders
AllAncPayloads ==
    { AncPayload(mode, fov, level) :
        mode \in AncMode, fov \in BOOLEAN, level \in 0..255 }
AncBodies ==
    { << 2, b1, b2, b3, 1, b5, b6 >> :
        b1 \in { 0, 1, 2, 17, 255 }, b2 \in { 0, 1, 2, 3 }, b3 \in { 0, 1, 2, 3 },
        b5 \in { 0, 1, 2 }, b6 \in LevelSamples }
BatteryBodies ==
    { << b0, b1, b2, b3, b4 >> :
        b0 \in { 0, 1, 2, 3 }, b1 \in { 0, 1, 80 }, b2 \in { 0, 1, 2 },
        b3 \in { 0, 1, 80 }, b4 \in { 0, 1 } }
    \cup { << b0, b1, b2 >> : b0 \in { 0, 2 }, b1 \in { 0, 1, 80 }, b2 \in { 0, 1, 2 } }
\* what follows the code byte of a Command1 body: seven bytes that every
\* typed decoder accepts, and the same with 3 in the place of the battery
\* type
TypedTail == << 2, 0, 2, 0, 1, 0, 20 >>
BadTypeTail == << 3, 0, 2, 0, 1, 0, 20 >>
\* the battery reply 11 01 00 50 01 00 00
BatteryReplyBody == << 17, 1, 0, 80, 1, 0, 0 >>
\* the battery reply 11 01 50 01 00 00: Dual, left 0x50 charging, right 0
BatteryReplyLeft == << 17, 1, 80, 1, 0, 0 >>
Command1Bodies ==
    { << c >> \o t : c \in 0..255, t \in { TypedTail, BadTypeTail } }
    \cup { BatteryReplyBody, BatteryReplyLeft }
\* an operation with the payload to encode or the bytes to decode
PayloadInput(op, anc, body) == [op |-> op, anc |-> anc, body |-> body]
NoAnc == AncPayload("Off", FALSE, 0)
PayloadInputs ==
    { PayloadInput("AncPayload::write_into", a, <<>>) : a \in AllAncPayloads }
    \cup { PayloadInput("AncPayload::try_from", NoAnc, b) : b \in AncBodies }
    \cup { PayloadInput("BatteryState::try_from", NoAnc, b) : b \in BatteryBodies }
    \cup { PayloadInput("PayloadCommand1::try_from", NoAnc, b) : b \in Command1Bodies }

\* no packet under the codec operations
NoCodec == [p |-> None, out |-> None, back |-> None]

\* ------------------------------------------------------------------------
\* The facade (sony_device.rs) over its session (device_session.rs)
\* ------------------------------------------------------------------------
\* the tasks that call SonyDevice::send
Callers == { 1, 2 }

\* the transport is read at most MaxReads times, send is called at most
\* MaxCalls times
MaxReads == 3
MaxCalls == 3

\* struct DeviceSession
DeviceSession(seq, pending_ack) == [seqnum |-> seq, pending_ack |-> pending_ack]

\* A caller of send.  st: "idle" (not in send), "waiting" (at
\* receiver.await), "done" (send returned Ok(got)), "failed" (send returned
\* Err), "panicked", "dropped" (the send future was dropped at
\* receiver.await).  The receiver of the caller's oneshot channel is alive
\* exactly while st = "waiting".
Caller(st, got) == [st |-> st, got |-> got]

\* SonyDevice::new, with no caller in send, nothing written to the
\* transport, nothing sent on the broadcast channel and run in its loop.
\* completion_stream holds the caller whose oneshot sender is stored.
\* unacked is history: the non-ack frames that send has written and that no
\* ack parsed by run has answered yet.
SonyDevice_new ==
    [ completion_stream |-> None,
      device_session |-> DeviceSession(0, 0),
      callers |-> [c \in Callers |-> Caller("idle", None)],
      written |-> <<>>,
      broadcast |-> <<>>,
      run |-> "running",
      unacked |-> 0,
      reads |-> 0,
      calls |-> 0 ]

\* device_session.rs:49-59: the sequence number of the packet to encode
session_seqnum(command, given) ==
    IF command # Ack THEN given ELSE wrapping_sub(1, given)

\* device_session.rs:61-63: the result of Packet::write_into, the bytes
\* written and the session afterwards
session_encoded(ds, w) == [res |-> w.res, buf |-> w.buf, ds |-> ds]

\* mutant of DeviceSession_encode_packet: a pending ack does not refuse the
\* packet
DeviceSession_encode_packet_unchecked(ds, command, seqnum_arg) ==
    the({ session_encoded(IF command # Ack
                           THEN [ds EXCEPT !.pending_ack = @ + 1]
                           ELSE ds, w) :
          w \in { write_into(Packet(session_seqnum(command,
                                                   IF IsSome(seqnum_arg)
                                                   THEN Unwrap(seqnum_arg)
                                                   ELSE ds.seqnum),
                                    command),
                             <<>>, 0) } })

\* DeviceSession::encode_packet(&mut self, buffer, command, seqnum) on a
\* zeroed buffer; pending_ack is incremented before the packet is written
DeviceSession_encode_packet(ds, command, seqnum_arg) ==
    IF command # Ack /\ ds.pending_ack > 0
    THEN [res |-> Err([e |-> "already awaiting response"]), buf |-> <<>>, ds |-> ds]
    ELSE the({ session_encoded(IF command # Ack
                                THEN [ds EXCEPT !.pending_ack = @ + 1]
                                ELSE ds, w) :
               w \in { write_into(Packet(session_seqnum(command,
                                                        IF IsSome(seqnum_arg)
                                                        THEN Unwrap(seqnum_arg)
                                                        ELSE ds.seqnum),
                                         command),
                                  <<>>, 0) } })

\* mutant of session_parsed: a parsed ack leaves the session as it is
session_parsed_keep(ds, n, parsed) == [n |-> n, res |-> parsed, ds |-> ds]

\* device_session.rs:21-27: an ack that decodes while an ack is pending
\* clears it and sets the session's sequence number
session_parsed(ds, n, parsed) ==
    [ n |-> n,
      res |-> parsed,
      ds |-> IF parsed.st = "Ok" /\ is_ack(parsed.v) /\ ds.pending_ack > 0
             THEN DeviceSession(parsed.v.seqnum, ds.pending_ack - 1)
             ELSE ds ]

\* mutant of session_parse_at: the trailer is not counted as consumed
session_parse_at_short(ds, buffer, index) ==
    IF index = -1
    THEN [n |-> Len(buffer), res |-> Err([e |-> "no packet in buffer"]), ds |-> ds]
    ELSE the({ session_parsed(ds, index, parsed) :
               parsed \in { Packet_try_from(Slice(buffer, 0, index)) } })

\* device_session.rs:19-33 with index the position of the first 60, or -1
session_parse_at(ds, buffer, index) ==
    IF index = -1
    THEN [n |-> Len(buffer), res |-> Err([e |-> "no packet in buffer"]), ds |-> ds]
    ELSE the({ session_parsed(ds, index + 1, parsed) :
               parsed \in { Packet_try_from(Slice(buffer, 0, index)) } })

\* DeviceSession::parse_packet(&mut self, buffer): the bytes consumed, the
\* result and the session afterwards
DeviceSession_parse_packet(ds, buffer) ==
    session_parse_at(ds, buffer, position(buffer, 60, 0))

\* mutant of run_complete: the result of the oneshot send is ignored, a
\* packet for a dropped receiver goes nowhere
run_complete_lost(fac, packet) ==
    IF IsSome(fac.completion_stream)
    THEN [fac EXCEPT !.completion_stream = None,
                     !.callers[Unwrap(fac.completion_stream)] =
                         IF @.st = "waiting" THEN Caller("done", Some(packet)) ELSE @]
    ELSE [fac EXCEPT !.completion_stream = None,
                     !.broadcast = Append(@, packet)]

\* sony_device.rs:103-111: the stored oneshot sender is taken; the packet
\* goes to its receiver when that is alive, to the broadcast channel when
\* it is not or when no sender was stored
run_complete(fac, packet) ==
    IF IsSome(fac.completion_stream)
       /\ fac.callers[Unwrap(fac.completion_stream)].st = "waiting"
    THEN [fac EXCEPT !.completion_stream = None,
                     !.callers[Unwrap(fac.completion_stream)] =
                         Caller("done", Some(packet))]
    ELSE [fac EXCEPT !.completion_stream = None,
                     !.broadcast = Append(@, packet)]

\* sony_device.rs:91-101: the ack of a non-ack packet is encoded and written
run_ack(fac, packet, enc) ==
    IF enc.res.st = "Ok"
    THEN run_complete([fac EXCEPT !.device_session = enc.ds,
                                  !.written = Append(@, enc.buf)],
                      packet)
    ELSE [fac EXCEPT !.device_session = enc.ds,
                     !.run = IF enc.res.st = "Panic" THEN "panicked" ELSE "failed"]

\* sony_device.rs:89-112: the body of the loop for a parsed packet
run_packet(fac, packet) ==
    IF is_ack(packet) THEN [fac EXCEPT !.unacked = IF @ > 0 THEN @ - 1 ELSE 0]
    ELSE the({ run_ack(fac, packet, enc) :
               enc \in { DeviceSession_encode_packet(fac.device_session, Ack,
                                                     Some(packet.seqnum)) } })

\* sony_device.rs:82-86: res? ends run with the error of parse_packet
run_parsed(fac, p) ==
    IF p.res.st = "Ok"
    THEN run_packet([fac EXCEPT !.device_session = p.ds], p.res.v)
    ELSE [fac EXCEPT !.device_session = p.ds,
                     !.run = IF p.res.st = "Panic" THEN "panicked" ELSE "failed"]

RECURSIVE run_frames(_, _)
\* sony_device.rs:80-115: while index < size, over the bytes
\* receive_buffer[index..size]
run_frames(fac, data) ==
    IF data = <<>> \/ fac.run # "running" THEN fac
    ELSE the({ run_frames(run_parsed(fac, p), Slice(data, p.n, Len(data))) :
               p \in { DeviceSession_parse_packet(fac.device_session, data) } })

\* sony_device.rs:49-59: the outcome of encode_packet in send; the frame is
\* written and the caller awaits its receiver, or send returns the error
send_written(fac, c, enc) ==
    [fac EXCEPT !.device_session = enc.ds,
                !.written = IF enc.res.st = "Ok" THEN Append(@, enc.buf) ELSE @,
                !.unacked = IF enc.res.st = "Ok" THEN @ + 1 ELSE @,
                !.callers[c] = Caller(CASE enc.res.st = "Ok" -> "waiting"
                                        [] enc.res.st = "Err" -> "failed"
                                        [] enc.res.st = "Panic" -> "panicked",
                                      None)]

\* SonyDevice::send(content) by caller c from the lock to receiver.await,
\* when no sender is stored (with one stored the loop takes the lock again)
send_step(fac, c, content) ==
    the({ send_written([fac EXCEPT !.completion_stream = Some(c),
                                   !.calls = @ + 1], c, enc) :
          enc \in { DeviceSession_encode_packet(fac.device_session, content, None) } })

\* what the device sends to the facade in one read of the transport
FacadeReads ==
    { AckFrame1, AckFrame0, InitReplyFrame1, AckFrame1 \o InitReplyFrame1,
      InitReplyHead, FwVersionReplyFrame0 }

\* what the callers send
FacadeContents == { InitRequest, FwVersionRequest, Command2 }

\* the clock advances by one of these (ms)
TimeSteps == { 500, 600 }

\* ------------------------------------------------------------------------
\* Actions
\* ------------------------------------------------------------------------
Init ==
    /\ pending_packet = None
    /\ read_buf = <<>>
    /\ write_buf = <<>>
    /\ reading = None
    /\ sending = None
    /\ seqnum = 0
    /\ now = 0
    /\ panicked = FALSE
    /\ ret = NoResult
    /\ last_sent_at = None
    /\ codec = NoCodec
    /\ facade = SonyDevice_new

\* the session fields before a call
Self == Device(pending_packet, read_buf, write_buf, reading, sending, seqnum)

\* the session fields after a call
Becomes(n) ==
    /\ pending_packet' = n.pending_packet
    /\ read_buf' = n.read_buf
    /\ write_buf' = retained(n.write_buf, n.sending)
    /\ reading' = n.reading
    /\ sending' = n.sending
    /\ seqnum' = n.seqnum
    /\ panicked' = n.panicked
    /\ ret' = n.ret

\* Device::received_packet(content) on the fields of the session
received(content) ==
    /\ ~panicked
    /\ Len(read_buf) + Len(content) <= MaxBuffered
    /\ \E n \in { received_packet_step(Self, content) } : Becomes(n)

received_packet(content) ==
    /\ received(content)
    /\ UNCHANGED << now, last_sent_at, codec, facade >>

\* Device::poll() on the fields of the session
polled ==
    /\ ~panicked
    /\ \E n \in { poll_step(Self, now) } :
          /\ Becomes(n)
          /\ last_sent_at' =
                IF ~IsSome(n.sending) THEN None
                ELSE IF n.ret.kind = "SendPacket" /\ ~IsSome(pending_packet)
                        /\ ~IsSome(reading)
                THEN Some(now)
                ELSE last_sent_at

poll ==
    /\ polled
    /\ UNCHANGED << now, codec, facade >>

send_packet(content) ==
    /\ ~panicked
    /\ \E n \in { send_packet_step(Self, content) } : Becomes(n)
    /\ UNCHANGED << now, last_sent_at, codec, facade >>

\* time passes
Tick(dt) ==
    /\ ~panicked
    /\ now + dt <= MaxTime
    /\ now' = now + dt
    /\ UNCHANGED << devvars, panicked, ret, last_sent_at, codec, facade >>

Receive == \E content \in Chunks : received_packet(content)
Send == \E content \in Contents : send_packet(content)
Advance == \E dt \in TimeSteps : Tick(dt)

Next == Receive \/ poll \/ Send \/ Advance

Spec == Init /\ [][Next]_vars

\* The session fed with escaped, split, partial and malformed input and
\* with every kind of content to send.
ReceiveRaw == \E content \in RawChunks : received_packet(content)
SendAny == \E content \in AnyContents : send_packet(content)

NextIntake == ReceiveRaw \/ poll \/ SendAny

SpecIntake == Init /\ [][NextIntake]_vars

\* The facade: callers in send, the run loop reading the transport.
SonyDevice_send(c, content) ==
    /\ facade.calls < MaxCalls
    /\ facade.callers[c].st \in { "idle", "done", "failed" }
    /\ ~IsSome(facade.completion_stream)
    /\ facade' = send_step(facade, c, content)
    /\ UNCHANGED << devvars, now, panicked, ret, last_sent_at, codec >>

\* one iteration of the loop of SonyDevice::run that reads data
SonyDevice_run(data) ==
    /\ facade.reads < MaxReads
    /\ facade.run = "running"
    /\ facade' = run_frames([facade EXCEPT !.reads = @ + 1], data)
    /\ UNCHANGED << devvars, now, panicked, ret, last_sent_at, codec >>

\* the future of send is dropped at receiver.await
drop_send(c) ==
    /\ facade.callers[c].st = "waiting"
    /\ facade' = [facade EXCEPT !.callers[c] = Caller("dropped", None)]
    /\ UNCHANGED << devvars, now, panicked, ret, last_sent_at, codec >>

FacadeSend == \E c \in Callers, content \in FacadeContents : SonyDevice_send(c, content)
FacadeRun == \E data \in FacadeReads : SonyDevice_run(data)
FacadeDrop == \E c \in Callers : drop_send(c)

NextFacade == FacadeSend \/ FacadeRun \/ FacadeDrop

SpecFacade == Init /\ [][NextFacade]_vars

\* The session fed with one non-ack frame at a time, with every seqnum
\* byte, and polled.
ReceiveSeq ==
    \E s \in 0..255 :
        /\ ~IsSome(reading)
        /\ ~IsSome(pending_packet)
        /\ received_packet(ReplyFrameOf(s))

NextSeq == ReceiveSeq \/ poll

SpecSeq == Init /\ [][NextSeq]_vars

\* The session against a peer that answers every non-ack frame it is handed
\* with one ack whose seqnum is 1 XOR the seqnum of that frame. codec.wire
\* holds the seqnums of the acks on their way, in order; codec.emitted
\* holds the seqnum of every frame at its first hand-out.
InitPeer ==
    /\ pending_packet = None
    /\ read_buf = <<>>
    /\ write_buf = <<>>
    /\ reading = None
    /\ sending = None
    /\ seqnum = 0
    /\ now = 0
    /\ panicked = FALSE
    /\ ret = NoResult
    /\ last_sent_at = None
    /\ codec = [wire |-> <<>>, emitted |-> <<>>]
    /\ facade = SonyDevice_new

\* the outstanding frame has not been handed out yet (lib.rs:112)
Unsent == IsSome(sending) /\ ~IsSome(Unwrap(sending).i)

\* what the peer and the record of hand-outs become when poll returns r;
\* `first` says that the outstanding frame had not been handed out before
peer_saw(c, r, first) ==
    IF r.kind = "SendPacket" /\ r.bytes[2] # 1
    THEN [c EXCEPT !.wire = Append(@, (IF r.bytes[3] % 2 = 0 THEN r.bytes[3] + 1
                                       ELSE r.bytes[3] - 1)),
                   !.emitted = IF first THEN Append(@, r.bytes[3]) ELSE @]
    ELSE c

PollPeer ==
    /\ polled
    /\ codec' = peer_saw(codec, ret', Unsent)
    /\ Len(codec'.wire) <= MaxWire
    /\ Len(codec'.emitted) <= MaxEmitted
    /\ UNCHANGED << now, facade >>

\* the oldest ack on its way arrives, once the earlier input is polled away
DeliverAck ==
    /\ codec.wire # <<>>
    /\ ~IsSome(reading)
    /\ received(<< 62, 1, Head(codec.wire), 0, 0, 0, 0, (1 + Head(codec.wire)) % 256, 60 >>)
    /\ codec' = [codec EXCEPT !.wire = Tail(@)]
    /\ UNCHANGED << now, last_sent_at, facade >>

NextPeer == PollPeer \/ DeliverAck \/ Send \/ Advance

SpecPeer == InitPeer /\ [][NextPeer]_vars

\* The session fed with an endless stream of well-formed frames, an
\* InitReply frame and an AmbientSoundControlNotify frame in turn, in
\* chunks of 7 or 13 bytes. codec.at is the position of the next stream
\* byte within the two frames, codec.given the length of the last chunk.
\* The notify frame has the level 0x3D, escaped on the wire as 3D 2D.
EscNotifyFrame3D == << 62, 12, 0, 0, 0, 0, 8, 105, 2, 1, 2, 0, 1, 1, 61, 45, 193, 60 >>
Stream == InitReplyFrame1 \o EscNotifyFrame3D
ChunkSizes == { 7, 13 }

\* the n stream bytes from position k on
chunk_at(k, n) == [ j \in 1..n |-> Stream[((k + j - 1) % Len(Stream)) + 1] ]

InitStream ==
    /\ pending_packet = None
    /\ read_buf = <<>>
    /\ write_buf = <<>>
    /\ reading = None
    /\ sending = None
    /\ seqnum = 0
    /\ now = 0
    /\ panicked = FALSE
    /\ ret = NoResult
    /\ last_sent_at = None
    /\ codec = [at |-> 0, given |-> 0]
    /\ facade = SonyDevice_new

\* every complete frame in the buffer has been polled away
Drained ==
    /\ ~IsSome(pending_packet)
    /\ IsSome(reading) =>
          position(Slice(read_buf, Unwrap(reading)[1], Unwrap(reading)[2]),
                   MESSAGE_TRAILER, 0) = -1

\* received_packet(&stream[at..at + size]); the caller goes on behind the
\* bytes the call says it consumed
ReceiveStream ==
    /\ ~panicked
    /\ Drained
    /\ \E size \in ChunkSizes :
          \E n \in { received_packet_step(Self, chunk_at(codec.at, size)) } :
             /\ Becomes(n)
             /\ codec' = [at |-> (codec.at + n.ret.n) % Len(Stream), given |-> size]
    /\ UNCHANGED << now, last_sent_at, facade >>

NextStream == ReceiveStream \/ poll

SpecStream == InitStream /\ [][NextStream]_vars

\* The codec on its own: a packet p, then Packet::write_into(p, buf) on a
\* zeroed buffer.
InitCodec ==
    /\ pending_packet = None
    /\ read_buf = <<>>
    /\ write_buf = <<>>
    /\ reading = None
    /\ sending = None
    /\ seqnum = 0
    /\ now = 0
    /\ panicked = FALSE
    /\ ret = NoResult
    /\ last_sent_at = None
    /\ codec \in { [p |-> Some(packet), out |-> None, back |-> None] :
                   packet \in CodecPackets }
    /\ facade = SonyDevice_new

\* out = Some([res |-> Ok(n) / Err / Panic, buf |-> the buffer afterwards])
Encode ==
    /\ IsSome(codec.p)
    /\ ~IsSome(codec.out)
    /\ codec' = [codec EXCEPT !.out = Some(write_into(Unwrap(codec.p), <<>>, 0))]
    /\ UNCHANGED << devvars, now, panicked, ret, last_sent_at, facade >>

\* back = Some(Packet::try_from(frame)) for the frame that write_into
\* produced
Decode ==
    /\ IsSome(codec.out)
    /\ Unwrap(codec.out).res.st = "Ok"
    /\ ~IsSome(codec.back)
    /\ codec' = [codec EXCEPT !.back = Some(Packet_try_from(Unwrap(codec.out).buf))]
    /\ UNCHANGED << devvars, now, panicked, ret, last_sent_at, facade >>

NextCodec == Encode \/ Decode

SpecCodec == InitCodec /\ [][NextCodec]_vars

\* The payload encoders and decoders on their own: an input, then the
\* operation applied to it.
InitPayload ==
    /\ pending_packet = None
    /\ read_buf = <<>>
    /\ write_buf = <<>>
    /\ reading = None
    /\ sending = None
    /\ seqnum = 0
    /\ now = 0
    /\ panicked = FALSE
    /\ ret = NoResult
    /\ last_sent_at = None
    /\ codec \in { [in |-> i, out |-> None] : i \in PayloadInputs }
    /\ facade = SonyDevice_new

\* out = Some(Ok(the bytes written))
AncEncode ==
    /\ codec.in.op = "AncPayload::write_into"
    /\ ~IsSome(codec.out)
    /\ codec' = [codec EXCEPT !.out = Some(Ok(AncPayload_write_into(codec.in.anc)))]
    /\ UNCHANGED << devvars, now, panicked, ret, last_sent_at, facade >>

\* out = Some(Ok(payload) / Err / Panic)
AncDecode ==
    /\ codec.in.op = "AncPayload::try_from"
    /\ ~IsSome(codec.out)
    /\ codec' = [codec EXCEPT !.out = Some(AncPayload_try_from(codec.in.body))]
    /\ UNCHANGED << devvars, now, panicked, ret, last_sent_at, facade >>

BatteryDecode ==
    /\ codec.in.op = "BatteryState::try_from"
    /\ ~IsSome(codec.out)
    /\ codec' = [codec EXCEPT !.out = Some(BatteryState_try_from(codec.in.body))]
    /\ UNCHANGED << devvars, now, panicked, ret, last_sent_at, facade >>

Command1Decode ==
    /\ codec.in.op = "PayloadCommand1::try_from"
    /\ ~IsSome(codec.out)
    /\ codec' = [codec EXCEPT !.out = Some(PayloadCommand1_try_from(codec.in.body))]
    /\ UNCHANGED << devvars, now, panicked, ret, last_sent_at, facade >>

NextPayload == AncEncode \/ AncDecode \/ BatteryDecode \/ Command1Decode

SpecPayload == InitPayload /\ [][NextPayload]_vars

\* DeviceSession on its own, as in test_parse_packets: a receive buffer of
\* whole frames, an optional encode_packet(InitRequest) first, then
\* parse_packet on the rest of the buffer again and again.
ParseFrames == { AckFrame0, AckFrame1, InitReplyFrame1, Command2Frame0, FwVersionReplyFrame0 }
ParseInputs ==
    { << f >> : f \in ParseFrames }
    \cup { << f, g >> : f \in ParseFrames, g \in ParseFrames }
    \cup { << f, g, h >> : f \in { AckFrame1, InitReplyFrame1 }, g \in ParseFrames,
                           h \in { AckFrame0, InitReplyFrame1 } }

RECURSIVE Concat(_)
\* the receive buffer that holds the frames
Concat(frames) ==
    IF frames = <<>> THEN <<>> ELSE Head(frames) \o Concat(Tail(frames))

InitParse ==
    /\ pending_packet = None
    /\ read_buf = <<>>
    /\ write_buf = <<>>
    /\ reading = None
    /\ sending = None
    /\ seqnum = 0
    /\ now = 0
    /\ panicked = FALSE
    /\ ret = NoResult
    /\ last_sent_at = None
    /\ codec \in { [ frames |-> fs, receive |-> Concat(fs), i |-> 0,
                      device_session |-> DeviceSession(0, 0), encoded |-> FALSE,
                      results |-> <<>> ] : fs \in ParseInputs }
    /\ facade = SonyDevice_new

\* device_session.encode_packet(&mut send_buffer, Command1(InitRequest), None)
SessionEncode ==
    /\ ~codec.encoded
    /\ codec.results = <<>>
    /\ \E enc \in { DeviceSession_encode_packet(codec.device_session, InitRequest, None) } :
          codec' = [codec EXCEPT !.encoded = TRUE, !.device_session = enc.ds]
    /\ UNCHANGED << devvars, now, panicked, ret, last_sent_at, facade >>

\* let (n, res) = device_session.parse_packet(&receive[i..]); i += n
SessionParse ==
    /\ codec.i < Len(codec.receive)
    /\ \E p \in { DeviceSession_parse_packet(codec.device_session,
                                               Slice(codec.receive, codec.i,
                                                     Len(codec.receive))) } :
          codec' = [codec EXCEPT !.i = @ + p.n,
                                 !.device_session = p.ds,
                                 !.results = Append(@, [n |-> p.n, res |-> p.res])]
    /\ UNCHANGED << devvars, now, panicked, ret, last_sent_at, facade >>

NextParse == SessionEncode \/ SessionParse

SpecParse == InitParse /\ [][NextParse]_vars

\* a poll that hands out the outstanding frame
Transmit ==
    /\ poll
    /\ IsSome(sending)
    /\ ~IsSome(pending_packet)
    /\ ~IsSome(reading)
    /\ ret'.kind = "SendPacket"

\* the peer never acknowledges: only non-ack frames arrive, each one after
\* the caller has polled the earlier input away
NoAckChunks == { InitReplyFrame1, Command2Frame0, FwVersionReplyFrame0 }
ReceiveNoAck ==
    /\ ~IsSome(reading)
    /\ ~IsSome(pending_packet)
    /\ \E content \in NoAckChunks : received_packet(content)

NextNoAck == ReceiveNoAck \/ poll \/ Send \/ Advance

\* No ack is ever ingested, the caller keeps polling, the clock keeps
\* running, and a poll that would hand out the outstanding frame is not put
\* off forever.
SpecNoAck ==
    /\ Init
    /\ [][NextNoAck]_vars
    /\ WF_vars(poll)
    /\ WF_vars(Advance)
    /\ SF_vars(Transmit)

\* ------------------------------------------------------------------------
\* Properties
\* ------------------------------------------------------------------------
\* the bytes of the outstanding frame, write_buf[r]
OutstandingFrame ==
    IF IsSome(sending)
    THEN Slice(write_buf, Unwrap(sending).r[1], Unwrap(sending).r[2])
    ELSE <<>>

\* 1 XOR s on a byte
Xor1(s) == IF s % 2 = 0 THEN s + 1 ELSE s - 1

\* an ack frame with seqnum s on the wire: kind 0x01, empty body
AckFrameOf(s) == << 62, 1, s, 0, 0, 0, 0, (1 + s) % 256, 60 >>

\* the unprocessed bytes of the read buffer, read_buf[start..end)
Unread == IF IsSome(reading) THEN Slice(read_buf, Unwrap(reading)[1], Unwrap(reading)[2])
          ELSE <<>>

\* the frame f is the next one in the read buffer
HeadIs(f) == Len(Unread) >= Len(f) /\ SubSeq(Unread, 1, Len(f)) = f

\* well-formed non-ack frames with seqnum 0 or 1 among the inputs, and those
\* of them whose body the catalogue decodes
NonAckFrames == { InitReplyFrame1, Command2Frame0, FwVersionReplyFrame0 }
DecodableFrames == { InitReplyFrame1, Command2Frame0 }

\* C1: at most one send is outstanding: while one is, every send_packet call
\* returns the error "already awaiting response", the outstanding range and
\* its bytes stay as they are, and only a poll that returns an ack clears it.
C1_OneOutstandingSend ==
    [][ IsSome(sending) =>
          /\ \A c \in Contents :
                send_packet(c) => /\ ret'.kind = "Err"
                                  /\ ret'.err = Some(AlreadyAwaiting)
                                  /\ sending' = sending
          /\ IsSome(sending') => /\ Unwrap(sending').r = Unwrap(sending).r
                                 /\ OutstandingFrame' = OutstandingFrame
          /\ ~IsSome(sending') => /\ poll
                                  /\ ret'.kind = "ReceivedPacket"
                                  /\ is_ack(Unwrap(ret'.packet)) ]_vars

\* a send_packet call was rejected while a frame is outstanding
C1_Witness ==
    /\ IsSome(sending)
    /\ ret.op = "send_packet"
    /\ ret.err = Some(AlreadyAwaiting)

\* C2: when a well-formed non-ack frame with seqnum s in {0, 1} is the next
\* frame in the read buffer, a SendPacket returned by poll is the ack frame
\* with seqnum 1 XOR s, with or without an outstanding send; for the frames
\* the catalogue decodes poll does return it.
C2_AutoAck ==
    [][ \A f \in NonAckFrames :
          (poll /\ ~IsSome(pending_packet) /\ HeadIs(f)) =>
             /\ f \in DecodableFrames => ret'.kind = "SendPacket"
             /\ ret'.kind = "SendPacket" => ret'.bytes = AckFrameOf(Xor1(f[3])) ]_vars

\* poll returned the ack (seqnum 0) of the InitReply with seqnum 1 while a
\* send is outstanding
C2_Witness ==
    /\ ret = SendPacket(AckFrameOf(0))
    /\ IsSome(sending)
    /\ IsSome(pending_packet)
    /\ Unwrap(pending_packet).seqnum = 1

\* C3: the poll that extracts a non-ack packet P returns SendPacket(ack for
\* P) and keeps P; the next poll returns ReceivedPacket(P); no other call
\* touches the kept packet, and a non-ack packet is returned only so.
C3_AckThenDeliver ==
    [][ /\ (poll /\ ~IsSome(pending_packet) /\ IsSome(pending_packet')) =>
              ret' = SendPacket(AckFrameOf(Xor1(Unwrap(pending_packet').seqnum)))
        /\ (poll /\ IsSome(pending_packet)) =>
              /\ ret' = ReceivedPacket(Unwrap(pending_packet))
              /\ ~IsSome(pending_packet')
        /\ (poll /\ ret'.kind = "ReceivedPacket" /\ ~is_ack(Unwrap(ret'.packet))) =>
              pending_packet = ret'.packet
        /\ ~poll => pending_packet' = pending_packet ]_vars

\* poll delivered the InitReply of scenario S2
C3_Witness ==
    ret = ReceivedPacket(Packet(1, Command1([k |-> "InitReply", b |-> << 0, 112, 0 >>])))

\* C4: an accepted non-ack packet is encoded with the session's seqnum
\* (0 at first); a poll that processes an ack with seqnum s while a send is
\* outstanding clears the send and sets the seqnum to s; nothing else
\* changes the seqnum.
C4_SequencePolicy ==
    [][ /\ \A c \in Contents :
              (send_packet(c) /\ ret'.kind = "Ok") =>
                 /\ IsSome(sending')
                 /\ OutstandingFrame'[3] = seqnum
                 /\ seqnum' = seqnum
        /\ (poll /\ IsSome(sending) /\ ret'.kind = "ReceivedPacket"
                 /\ is_ack(Unwrap(ret'.packet))) =>
              /\ seqnum' = Unwrap(ret'.packet).seqnum
              /\ ~IsSome(sending')
        /\ seqnum' # seqnum => (poll /\ IsSome(sending) /\ ~IsSome(sending'))
        /\ (poll /\ ret'.kind = "SendPacket" /\ IsSome(sending)
                 /\ ret'.bytes = OutstandingFrame) => ret'.bytes[3] = seqnum ]_vars

\* after an ack with seqnum 1 the next accepted packet went out with seqnum 1
C4_Witness ==
    /\ seqnum = 1
    /\ IsSome(sending)
    /\ ret.kind = "SendPacket"
    /\ ret.bytes = OutstandingFrame
    /\ ret.bytes[3] = 1

\* the condition of C5 and C6: the outstanding frame was handed out at
\* last_sent_at, no ack has been processed since and no input is buffered
AwaitingAck ==
    /\ IsSome(sending)
    /\ IsSome(last_sent_at)
    /\ ~IsSome(reading)
    /\ ~IsSome(pending_packet)

\* C5: once the outstanding frame was handed out at time t, with no ack
\* processed since and no input buffered, a poll at a time later than
\* t + retry interval returns SendPacket with the same bytes.
C5_RetransmitAfterInterval ==
    [][ (poll /\ AwaitingAck /\ now - Unwrap(last_sent_at) > RETRY_DURATION) =>
           ret' = SendPacket(OutstandingFrame) ]_vars

\* C6: once the outstanding frame was handed out at time t, with nothing
\* buffered, a poll at a time up to t + retry interval returns
\* WaitingPacket(Some(t + retry interval)) and leaves the outstanding send,
\* its timestamp, its bytes and the seqnum as they are.
C6_WaitDeadline ==
    [][ (poll /\ AwaitingAck /\ now - Unwrap(last_sent_at) <= RETRY_DURATION) =>
           /\ ret' = WaitingPacket(Some(Unwrap(last_sent_at) + RETRY_DURATION))
           /\ sending' = sending
           /\ write_buf' = write_buf
           /\ seqnum' = seqnum
           /\ last_sent_at' = last_sent_at ]_vars

\* scenario S5: sent at 0, the poll at 0.5 s returned WaitingPacket(Some(1 s))
C6_Witness ==
    /\ now = 500
    /\ last_sent_at = Some(0)
    /\ ret = WaitingPacket(Some(1000))

\* the retry timer of the outstanding frame has run out
Overdue ==
    /\ IsSome(sending)
    /\ IsSome(Unwrap(sending).i)
    /\ retry_due(Unwrap(Unwrap(sending).i), now)

\* C7: while no ack is ingested the outstanding send is never dropped, and
\* whenever its retry timer has run out a later poll hands the frame out
\* again.
C7_RetransmitsForever ==
    /\ [][ IsSome(sending) => IsSome(sending') ]_vars
    /\ Overdue ~> (IsSome(sending) /\ ~Overdue /\ ret.kind = "SendPacket")

\* C8: the outstanding-send slot is cleared only after its frame has been
\* handed out by poll at least once.
C8_TransmittedBeforeCleared ==
    [][ (IsSome(sending) /\ ~IsSome(sending')) => IsSome(Unwrap(sending).i) ]_vars

RECURSIVE SumRange(_, _, _)
\* f[i] + ... + f[j]
SumRange(f, i, j) == IF i > j THEN 0 ELSE f[i] + SumRange(f, i + 1, j)

\* write_into returned Ok for the packet under the codec
Encoded == IsSome(codec.out) /\ Unwrap(codec.out).res.st = "Ok"
\* the bytes write_into left in the buffer and the length N of the body
EncodedFrame == Unwrap(codec.out).buf
BodyLen == Len(EncodedFrame) - 9

\* C9: a frame produced by Packet::write_into starts with 0x3E, has kind
\* byte 0x01/0x0C/0x0E and the seqnum, carries the body length N big-endian
\* in bytes 3..7, the sum modulo 256 of bytes 1..7+N in byte 7+N and 0x3C
\* in the last byte 8+N; Command1(InitRequest) with seqnum 0 is
\* 3E 0C 00 00 00 00 02 00 00 0E 3C.
C9_FrameLayout ==
    /\ Encoded =>
         /\ Unwrap(codec.out).res.v = Len(EncodedFrame)
         /\ BodyLen >= 0
         /\ EncodedFrame[1] = 62
         /\ EncodedFrame[2] \in {1, 12, 14}
         /\ EncodedFrame[2] = 1 <=> Unwrap(codec.p).content = Ack
         /\ EncodedFrame[3] = Unwrap(codec.p).seqnum
         /\ EncodedFrame[4] * 16777216 + EncodedFrame[5] * 65536
               + EncodedFrame[6] * 256 + EncodedFrame[7] = BodyLen
         /\ EncodedFrame[8 + BodyLen] = SumRange(EncodedFrame, 2, 7 + BodyLen) % 256
         /\ EncodedFrame[9 + BodyLen] = 60
    /\ (codec.p = Some(Packet(0, InitRequest)) /\ IsSome(codec.out)) =>
         /\ Encoded
         /\ EncodedFrame = << 62, 12, 0, 0, 0, 0, 2, 0, 0, 14, 60 >>

\* an AmbientSoundControlSet frame whose byte sum wraps has been encoded
C9_Witness ==
    /\ Encoded
    /\ BodyLen = 8
    /\ Unwrap(codec.p).seqnum = 255
    /\ SumRange(EncodedFrame, 2, 7 + BodyLen) > 255
    /\ EncodedFrame[8 + BodyLen] = SumRange(EncodedFrame, 2, 7 + BodyLen) % 256

\* the bytes the reader maps back to a sentinel after an escape byte
Sentinels == { MESSAGE_HEADER, MESSAGE_TRAILER, MESSAGE_ESCAPE }
EscapedSentinels ==
    { e \in Byte \ Sentinels : BitOr(e, BitNot(MESSAGE_ESCAPE_MASK)) \in Sentinels }

\* C10: between the header and the final trailer, the bytes poll hands out
\* in SendPacket hold no 0x3E or 0x3C, and 0x3D only as the first byte of
\* an escape pair (0x3D, b AND 0xEF) for a sentinel b.
C10_EscapeOnWrite ==
    ret.kind = "SendPacket" =>
        \A i \in 2..(Len(ret.bytes) - 1) :
            /\ ret.bytes[i] \notin { MESSAGE_HEADER, MESSAGE_TRAILER }
            /\ ret.bytes[i] = MESSAGE_ESCAPE =>
                  /\ i + 1 < Len(ret.bytes)
                  /\ ret.bytes[i + 1] \in EscapedSentinels

\* C11: a frame whose body byte 0x3C arrived escaped is extracted as one
\* frame that ends at the real trailer: the poll that finds it alone in the
\* read buffer acks it, keeps the packet with the restored 0x3C and leaves
\* nothing unread.
C11_EscapedTrailerInsideFrame ==
    [][ (poll /\ ~IsSome(pending_packet) /\ IsSome(reading) /\ Unread = NotifyFrame3C) =>
           /\ ret' = SendPacket(AckFrameOf(1))
           /\ pending_packet' =
                 Some(Packet(0, Command1([k |-> "AmbientSoundControlNotify",
                                          v |-> AncPayload("AmbiantMode", TRUE, 60)])))
           /\ ~IsSome(reading') ]_vars

\* C12: a read that ends with the escape byte is taken without failure or
\* abort, and the read that brings the escaped byte completes the buffer to
\* what one read of both would have stored.
C12_SplitEscape ==
    /\ [][ received_packet(EscHead) => (~panicked' /\ ret'.kind = "Ok") ]_vars
    /\ [][ (received_packet(EscTail) /\ Unread = SubSeq(NotifyFrame3C, 1, 14)) =>
              (~panicked' /\ Unread' = NotifyFrame3C) ]_vars

\* the InitReply packet of InitReplyFrame1
InitReply1 == Packet(1, Command1([k |-> "InitReply", b |-> << 0, 112, 0 >>]))

\* C13: with only the first part of a frame buffered, poll returns
\* WaitingPacket without error or abort and keeps the bytes; with the rest
\* ingested, poll extracts the packet.
C13_PartialFrame ==
    /\ [][ (poll /\ ~IsSome(pending_packet) /\ Unread = InitReplyHead) =>
              /\ ~panicked'
              /\ ret'.kind = "WaitingPacket"
              /\ Unread' = Unread ]_vars
    /\ [][ (poll /\ ~IsSome(pending_packet) /\ Unread = InitReplyFrame1) =>
              pending_packet' = Some(InitReply1) ]_vars

\* C14: for a trailer-terminated frame with an unknown kind byte, with a
\* declared length beyond the bytes present, or shorter than the fixed
\* header, poll returns an error value and does not abort.
C14_MalformedFrameIsError ==
    [][ \A f \in MalformedFrames :
          (poll /\ ~IsSome(pending_packet) /\ IsSome(reading) /\ HeadIs(f)) =>
             (~panicked' /\ ret'.kind = "Err") ]_vars

\* C15: for a Command1 frame with seqnum 0 whose body code is a
\* NotImplemented envelope, poll returns the ack with seqnum 1 as
\* SendPacket, takes the frame out of the buffer and keeps no packet to
\* deliver.
C15_DecodeFailureAcked ==
    [][ (poll /\ ~IsSome(pending_packet) /\ IsSome(reading)
              /\ HeadIs(FwVersionReplyFrame0)) =>
           /\ ret' = SendPacket(AckFrameOf(1))
           /\ ~IsSome(pending_packet')
           /\ Unread' = SubSeq(Unread, Len(FwVersionReplyFrame0) + 1, Len(Unread)) ]_vars

\* the AmbientSoundControlNotify packet of NotifyFrame3C
Notify3C ==
    Packet(0, Command1([k |-> "AmbientSoundControlNotify",
                        v |-> AncPayload("AmbiantMode", TRUE, 60)]))

\* well-formed decodable non-ack frames as they lie in the read buffer, and
\* the packet of each
DeliverableFrames == { InitReplyFrame1, Command2Frame0, NotifyFrame3C }
DecodedOf(f) ==
    IF f = InitReplyFrame1 THEN InitReply1
    ELSE IF f = NotifyFrame3C THEN Notify3C
    ELSE Packet(f[3], Command2)

\* C16: the poll that finds a decodable non-ack frame at the head of the
\* unread bytes takes exactly that frame, returns its own ack and keeps its
\* packet, whatever the seqnum of the frame before; the next poll returns
\* the kept packet and nothing else; nothing but poll and received_packet
\* changes the unread bytes or the kept packet.
C16_InOrderDelivery ==
    [][ /\ \A f \in DeliverableFrames :
              (poll /\ ~IsSome(pending_packet) /\ IsSome(reading) /\ HeadIs(f)) =>
                 /\ ret' = SendPacket(AckFrameOf(Xor1(f[3])))
                 /\ pending_packet' = Some(DecodedOf(f))
                 /\ Unread' = SubSeq(Unread, Len(f) + 1, Len(Unread))
        /\ (poll /\ IsSome(pending_packet)) =>
              /\ ret' = ReceivedPacket(Unwrap(pending_packet))
              /\ ~IsSome(pending_packet')
              /\ Unread' = Unread
        /\ received_packet(InitReplyFrame1) =>
              (Unread' = Unread \o InitReplyFrame1 /\ pending_packet' = pending_packet)
        /\ (~poll /\ ~ReceiveRaw) =>
              (Unread' = Unread /\ pending_packet' = pending_packet) ]_vars

\* C17: a send_packet call that does not accept its payload returns an
\* error value without aborting and leaves the outstanding send with its
\* bytes and instant, the seqnum, the kept packet and the read cursor as
\* they are.
C17_FailedSendIsNonFatal ==
    [][ \A c \in AnyContents :
          (send_packet(c) /\ ret'.kind # "Ok") =>
             /\ ~panicked'
             /\ ret'.kind = "Err"
             /\ sending' = sending
             /\ OutstandingFrame' = OutstandingFrame
             /\ seqnum' = seqnum
             /\ pending_packet' = pending_packet
             /\ reading' = reading ]_vars

\* C18: a poll that processes an ack frame while no send is outstanding
\* returns ReceivedPacket(ack) and leaves the seqnum, the empty
\* outstanding-send slot and the kept packet as they are.
C18_UnsolicitedAck ==
    [][ \A s \in {0, 1} :
          (poll /\ ~IsSome(pending_packet) /\ IsSome(reading) /\ ~IsSome(sending)
                /\ HeadIs(AckFrameOf(s))) =>
             /\ ret' = ReceivedPacket(Packet(s, Ack))
             /\ seqnum' = seqnum
             /\ ~IsSome(sending')
             /\ ~IsSome(pending_packet') ]_vars

\* an ack with seqnum 1 was returned and the seqnum is still 0
C18_Witness ==
    /\ ret = ReceivedPacket(Packet(1, Ack))
    /\ seqnum = 0
    /\ ~IsSome(sending)

\* C19: SonyDevice::send completes when the acknowledgement of its payload
\* is received: in the step in which the run loop parses the ack of the
\* frame that a waiting caller wrote (the session has that ack pending),
\* the caller's send returns, with no further packet from the device.
C19_SendCompletesOnAck ==
    [][ \A c \in Callers, s \in { 0, 1 } :
          ( /\ facade.completion_stream = Some(c)
            /\ facade.callers[c].st = "waiting"
            /\ facade.device_session = DeviceSession(s, 1)
            /\ SonyDevice_run(AckFrameOf(1 - s)) )
          => facade'.callers[c].st = "done" ]_vars

\* C20: every non-ack packet parsed by the run loop is sent on the
\* broadcast channel, also when a caller of send is waiting: a read that
\* holds the init reply appends it to what was broadcast.
C20_EveryPacketBroadcast ==
    [][ \A data \in { InitReplyFrame1, AckFrame1 \o InitReplyFrame1 } :
          SonyDevice_run(data)
          => facade'.broadcast = Append(facade.broadcast, InitReply1) ]_vars

\* the frames on the transport that are not acks (byte 1 is the kind)
WrittenNonAck == SelectSeq(facade.written, LAMBDA f : f[2] # 1)

\* C21: with concurrent callers of send, no non-ack frame is written while
\* an earlier written non-ack frame is unacknowledged; every write puts one
\* whole frame on the transport; a call that meets an unacknowledged frame
\* writes nothing (its caller waits for the lock again or gets an error).
C21_FacadeExclusivity ==
    /\ facade.unacked <= 1
    /\ \A i \in 1..Len(facade.written) :
          /\ facade.written[i][1] = 62
          /\ position(facade.written[i], 60, 0) = Len(facade.written[i]) - 1

\* one caller's frame is unacknowledged, the other caller's call has
\* returned an error and only the first frame was written
C21_Witness ==
    /\ facade.unacked = 1
    /\ Len(WrittenNonAck) = 1
    /\ \E c \in Callers : facade.callers[c].st = "failed"
    /\ \E c \in Callers : facade.callers[c].st \in { "waiting", "done" }

\* some caller has dropped its send future at receiver.await
SomeDropped == \E c \in Callers : facade.callers[c].st = "dropped"

\* C22: after a caller has dropped its send future between the write of
\* its frame and the ack, the run loop still handles the ack (pending_ack
\* is cleared and the ack's seqnum adopted), and a later send writes its
\* frame only when nothing of the earlier send is outstanding.
C22_Cancellation ==
    /\ [][ \A c \in Callers, s \in { 0, 1 } :
             ( /\ facade.callers[c].st = "dropped"
               /\ facade.device_session = DeviceSession(s, 1)
               /\ SonyDevice_run(AckFrameOf(1 - s)) )
             => facade'.device_session = DeviceSession(1 - s, 0) ]_vars
    /\ [][ ( /\ SomeDropped
             /\ FacadeSend
             /\ Len(facade'.written) > Len(facade.written) )
           => ( /\ facade.device_session.pending_ack = 0
                /\ facade.unacked = 0
                /\ ~IsSome(facade.completion_stream) ) ]_vars

\* a caller dropped its future, the ack of its frame was handled (seqnum 1
\* adopted) and the other caller's frame was written after it
C22_Witness ==
    /\ SomeDropped
    /\ facade.device_session = DeviceSession(1, 1)
    /\ Len(WrittenNonAck) = 2
    /\ WrittenNonAck[2][3] = 1
    /\ \E c \in Callers : facade.callers[c].st = "waiting"

\* the payload kinds whose body is specified
SpecifiedKinds ==
    { "InitRequest", "InitReply", "BatteryLevelRequest", "BatteryLevelReply",
      "BatteryLevelNotify", "AmbientSoundControlGet", "AmbientSoundControlRet",
      "AmbientSoundControlSet", "AmbientSoundControlNotify" }

\* the packet under the codec is an ack or carries a specified body
Specified ==
    \/ Unwrap(codec.p).content = Ack
    \/ /\ Unwrap(codec.p).content.t = "Command1"
       /\ Unwrap(codec.p).content.p.k \in SpecifiedKinds

\* C23: round trip: for every packet p with a specified body, write_into
\* produces a frame and Packet::try_from of that frame is Ok(p).
C23_RoundTrip ==
    (IsSome(codec.p) /\ Specified) =>
        /\ IsSome(codec.out) => Unwrap(codec.out).res.st = "Ok"
        /\ IsSome(codec.back) => Unwrap(codec.back) = Ok(Unwrap(codec.p))

\* the operation op was applied to the input
Applied(op) == codec.in.op = op /\ IsSome(codec.out)

\* C24: AncPayload encoding writes exactly 7 bytes: 02; 00 for Off, else
\* 11; 02; 00 for Off or Ambient, 02 for On, 01 for Wind; 01; 01 for
\* focus_on_voice, else 00; ambient_level for Off or Ambient, else 01; for
\* every mode, flag and level 0..255.
C24_AncEncoding ==
    Applied("AncPayload::write_into") =>
        Unwrap(codec.out) =
          Ok(<< 2,
               IF codec.in.anc.anc_mode = "Off" THEN 0 ELSE 17,
               2,
               CASE codec.in.anc.anc_mode = "On" -> 2
                 [] codec.in.anc.anc_mode = "Wind" -> 1
                 [] OTHER -> 0,
               1,
               IF codec.in.anc.focus_on_voice THEN 1 ELSE 0,
               IF codec.in.anc.anc_mode \in { "On", "Wind" } THEN 1
               ELSE codec.in.anc.ambiant_level >>)

\* Wind with focus on voice and level 255 was encoded
C24_Witness ==
    /\ Applied("AncPayload::write_into")
    /\ codec.in.anc = AncPayload("Wind", TRUE, 255)
    /\ Unwrap(codec.out) = Ok(<< 2, 17, 2, 1, 1, 1, 1 >>)

\* the mode that the bytes b1, b2, b3 of an AncPayload body stand for, or
\* "none"
ModeOfBody(b) ==
    CASE b[2] = 0 -> "Off"
      [] b[2] = 1 /\ b[3] = 0 /\ b[4] = 0 -> "AmbiantMode"
      [] b[2] = 1 /\ b[3] = 0 /\ b[4] = 1 -> "On"
      [] b[2] = 1 /\ b[3] = 2 /\ b[4] = 0 -> "AmbiantMode"
      [] b[2] = 1 /\ b[3] = 2 /\ b[4] = 1 -> "Wind"
      [] b[2] = 1 /\ b[3] = 2 /\ b[4] = 2 -> "On"
      [] OTHER -> "none"

\* C25: AncPayload decoding of a 7-byte body: b1 = 00 gives Off; b1 = 01
\* with b2 = 00 gives Ambient, On for b3 = 00, 01; b1 = 01 with b2 = 02
\* gives Ambient, Wind, On for b3 = 00, 01, 02; every other combination
\* returns the error InvalidValueForEnum, without aborting;
\* focus_on_voice is b5 = 01 and ambient_level is b6.
C25_AncDecoding ==
    Applied("AncPayload::try_from") =>
        IF ModeOfBody(codec.in.body) = "none"
        THEN /\ Unwrap(codec.out).st = "Err"
             /\ Unwrap(codec.out).e.e = "InvalidValueForEnum"
        ELSE Unwrap(codec.out) =
               Ok(AncPayload(ModeOfBody(codec.in.body), codec.in.body[6] = 1,
                             codec.in.body[7]))

\* the fields of a decoded battery state named by the body bytes at
\* (0-based) offsets lv and ch
SingleOf(t, b, lv, ch) == Ok([t |-> t, level |-> b[lv + 1], is_charging |-> (b[ch + 1] = 1)])

\* C26: the battery collapse rule: a Dual body (b0 = 1) with left level
\* b1 = 0 decodes to Single(right level, right flag); with b1 non-zero and
\* right level b3 = 0 to Single(left level, left flag); with both levels
\* non-zero to Dual with all four fields; Single (b0 = 0) and Case (b0 = 2)
\* bodies decode to their own variants with level b1 and charging b2 = 1.
C26_BatteryCollapse ==
    (Applied("BatteryState::try_from") /\ codec.in.body[1] \in { 0, 1, 2 }) =>
        Unwrap(codec.out) =
            CASE codec.in.body[1] = 0 -> SingleOf("Single", codec.in.body, 1, 2)
              [] codec.in.body[1] = 2 -> SingleOf("Case", codec.in.body, 1, 2)
              [] codec.in.body[1] = 1 /\ codec.in.body[2] = 0 ->
                   SingleOf("Single", codec.in.body, 3, 4)
              [] codec.in.body[1] = 1 /\ codec.in.body[2] # 0 /\ codec.in.body[4] = 0 ->
                   SingleOf("Single", codec.in.body, 1, 2)
              [] OTHER ->
                   Ok([t |-> "Dual",
                       level_left |-> codec.in.body[2],
                       is_left_charging |-> (codec.in.body[3] = 1),
                       level_right |-> codec.in.body[4],
                       is_right_charging |-> (codec.in.body[5] = 1)])

\* a Dual body with left level 80, charging, and right level 0 was decoded
\* to Single(80, charging)
C26_Witness ==
    /\ Applied("BatteryState::try_from")
    /\ codec.in.body = << 1, 80, 1, 0, 0 >>
    /\ Unwrap(codec.out) = Ok([t |-> "Single", level |-> 80, is_charging |-> TRUE])

\* C27: scenario S6: PayloadCommand1::try_from of the body
\* 11 01 00 50 01 00 00 yields
\* BatteryLevelReply(Single { level: 0x50, is_charging: true }).
C27_ScenarioS6 ==
    (Applied("PayloadCommand1::try_from") /\ codec.in.body = BatteryReplyBody) =>
        Unwrap(codec.out) =
            Ok([k |-> "BatteryLevelReply",
                s |-> [t |-> "Single", level |-> 80, is_charging |-> TRUE]])

\* C27 as amended: PayloadCommand1::try_from of the body 11 01 50 01 00 00
\* (Dual, left level 0x50 charging, right level 0) yields
\* BatteryLevelReply(Single { level: 0x50, is_charging: true }).
C27_ScenarioS6Left ==
    (Applied("PayloadCommand1::try_from") /\ codec.in.body = BatteryReplyLeft) =>
        Unwrap(codec.out) =
            Ok([k |-> "BatteryLevelReply",
                s |-> [t |-> "Single", level |-> 80, is_charging |-> TRUE]])

\* the body 11 01 50 01 00 00 was decoded to a battery reply
C27_Witness ==
    /\ Applied("PayloadCommand1::try_from")
    /\ codec.in.body = BatteryReplyLeft
    /\ Unwrap(codec.out).st = "Ok"
    /\ Unwrap(codec.out).v.k = "BatteryLevelReply"

\* AmbientSoundControlSet(On, focus_on_voice false, ambient_level 0) with
\* seqnum 0
AncSetOn0 ==
    Packet(0, Command1([k |-> "AmbientSoundControlSet", v |-> AncPayload("On", FALSE, 0)]))

\* C28: scenario S3: encoding Command1(AmbientSoundControlSet(On, false, 0))
\* with seqnum 0 produces exactly the frame
\* 3E 0C 00 00 00 00 08 68 02 11 02 02 01 00 01 96 3C (checksum byte 0x96).
C28_ScenarioS3 ==
    (codec.p = Some(AncSetOn0) /\ IsSome(codec.out)) =>
        /\ Unwrap(codec.out).res = Ok(17)
        /\ Unwrap(codec.out).buf =
             << 62, 12, 0, 0, 0, 0, 8, 104, 2, 17, 2, 2, 1, 0, 1, 150, 60 >>

\* C28 as amended: the frame is
\* 3E 0C 00 00 00 00 08 68 02 11 02 02 01 00 01 95 3C: the same body, with
\* checksum byte 0x95, the sum of the bytes after the header modulo 256.
C28_ScenarioS3Sum ==
    (codec.p = Some(AncSetOn0) /\ IsSome(codec.out)) =>
        /\ Unwrap(codec.out).res = Ok(17)
        /\ Unwrap(codec.out).buf =
             << 62, 12, 0, 0, 0, 0, 8, 104, 2, 17, 2, 2, 1, 0, 1, 149, 60 >>

\* the packet of scenario S3 was encoded
C28_Witness ==
    /\ codec.p = Some(AncSetOn0)
    /\ IsSome(codec.out)
    /\ Unwrap(codec.out).res.st = "Ok"

\* what each frame of ParseFrames holds
ParsedOf(f) ==
    CASE f = AckFrame0 -> Ok(Packet(0, Ack))
      [] f = AckFrame1 -> Ok(Packet(1, Ack))
      [] f = InitReplyFrame1 -> Ok(InitReply1)
      [] f = Command2Frame0 -> Ok(Packet(0, Command2))
      [] f = FwVersionReplyFrame0 ->
           Err([seqnum |-> 0, error |-> [e |-> "NotImplemented", code |-> 5]])

\* the frames parsed so far that are acks
ParsedAcks == { j \in 1..Len(codec.results) : codec.frames[j][2] = 1 }

\* the first ack parsed so far
FirstAck == codec.frames[CHOOSE j \in ParsedAcks : \A k \in ParsedAcks : j <= k]

\* C29: DeviceSession::parse_packet consumes one frame per call: with the
\* first 0x3C at index k it returns k + 1 and the packet parsed from the
\* bytes before it, so repeated calls on the rest of a buffer of
\* concatenated frames yield the packets in order and the counts sum to the
\* buffer length; an ack parsed while a send is awaited clears the awaited
\* marker and adopts the ack's seqnum.
C29_OneFramePerCall ==
    /\ \A j \in 1..Len(codec.results) :
          /\ codec.results[j].n = Len(codec.frames[j])
          /\ codec.results[j].res = ParsedOf(codec.frames[j])
    /\ Len(codec.results) = Len(codec.frames) => codec.i = Len(codec.receive)
    /\ codec.device_session =
          IF codec.encoded /\ ParsedAcks # {}
          THEN DeviceSession(FirstAck[3], 0)
          ELSE DeviceSession(0, IF codec.encoded THEN 1 ELSE 0)

\* the run of test_parse_packets: after the encode, the ack with seqnum 1
\* and the init reply were parsed from the 22 bytes
C29_Witness ==
    /\ codec.encoded
    /\ codec.frames = << AckFrame1, InitReplyFrame1 >>
    /\ codec.results = << [n |-> 9, res |-> Ok(Packet(1, Ack))],
                          [n |-> 13, res |-> Ok(InitReply1)] >>
    /\ codec.i = 22
    /\ codec.device_session = DeviceSession(1, 0)

\* the codes of the catalogue table whose decoding is not implemented:
\* 04/05, 06/07, 18/19/1B, 22, 46-49, 56-59, A6-A9, 84/85, 86/87/89, D6-D9,
\* E6-E9, F6-F9, FA-FD, C4/C9, 90/91
CatalogueEnvelopes ==
    { 4, 5, 6, 7, 24, 25, 27, 34, 132, 133, 134, 135, 137, 196, 201, 144, 145 }
    \cup { 64 + d : d \in 6..9 } \cup { 80 + d : d \in 6..9 }
    \cup { 160 + d : d \in 6..9 } \cup { 208 + d : d \in 6..9 }
    \cup { 224 + d : d \in 6..9 } \cup { 240 + d : d \in 6..13 }

\* the typed variant of a code of the catalogue table, decoded from the
\* seven bytes 02 00 02 00 01 00 14 after the code
TypedVariant(c) ==
    CASE c = 0 -> [k |-> "InitRequest"]
      [] c = 1 -> [k |-> "InitReply", b |-> << 2, 0, 2 >>]
      [] c = 16 -> [k |-> "BatteryLevelRequest", bt |-> "Case"]
      [] c = 17 -> [k |-> "BatteryLevelReply",
                    s |-> [t |-> "Case", level |-> 0, is_charging |-> FALSE]]
      [] c = 19 -> [k |-> "BatteryLevelNotify",
                    s |-> [t |-> "Case", level |-> 0, is_charging |-> FALSE]]
      [] c = 102 -> [k |-> "AmbientSoundControlGet"]
      [] c = 103 -> [k |-> "AmbientSoundControlRet", v |-> AncPayload("Off", FALSE, 20)]
      [] c = 104 -> [k |-> "AmbientSoundControlSet", v |-> AncPayload("Off", FALSE, 20)]
      [] c = 105 -> [k |-> "AmbientSoundControlNotify", v |-> AncPayload("Off", FALSE, 20)]

\* C30: PayloadCommand1 decoding dispatches on body byte 0 for all 256
\* values: 00, 01, 10, 11, 13, 66, 67, 68, 69 decode to their typed
\* variants; every other code of the catalogue table returns
\* NotImplemented; every unlisted code returns UnknownPayloadType(code);
\* BatteryLevelRequest with a type byte outside {0, 1, 2} returns
\* InvalidValueForEnum.
C30_PayloadCatalogue ==
    (Applied("PayloadCommand1::try_from")
     /\ Tail(codec.in.body) \in { TypedTail, BadTypeTail }) =>
        CASE codec.in.body[1] = 16 /\ Tail(codec.in.body) = BadTypeTail ->
               /\ Unwrap(codec.out).st = "Err"
               /\ Unwrap(codec.out).e.e = "InvalidValueForEnum"
               /\ Unwrap(codec.out).e.value = 3
          [] codec.in.body[1] \in { 0, 1, 16, 17, 19, 102, 103, 104, 105 }
             /\ Tail(codec.in.body) = TypedTail ->
               Unwrap(codec.out) = Ok(TypedVariant(codec.in.body[1]))
          [] codec.in.body[1] \in { 0, 1, 16, 17, 19, 102, 103, 104, 105 }
             /\ Tail(codec.in.body) = BadTypeTail /\ codec.in.body[1] # 16 ->
               Unwrap(codec.out).st \in { "Ok", "Err" }
          [] codec.in.body[1] \in CatalogueEnvelopes ->
               /\ Unwrap(codec.out).st = "Err"
               /\ Unwrap(codec.out).e.e = "NotImplemented"
          [] OTHER ->
               Unwrap(codec.out) =
                   Err([e |-> "UnknownPayloadType", code |-> codec.in.body[1]])

\* a body with the code 0x89 was answered with NotImplemented
C30_Witness ==
    /\ Applied("PayloadCommand1::try_from")
    /\ codec.in.body = << 137 >> \o TypedTail
    /\ Unwrap(codec.out).st = "Err"
    /\ Unwrap(codec.out).e.e = "NotImplemented"

\* C31: inbound work has priority over transmission: while a packet is
\* pending or bytes are buffered, poll does not hand out the outstanding
\* frame (first or repeated transmission) and does not arm its timer; a
\* pending packet is returned first, and a SendPacket of such a call
\* carries an ack.
C31_InboundFirst ==
    [][ (poll /\ (IsSome(pending_packet) \/ IsSome(reading))) =>
          /\ IsSome(pending_packet) =>
                ret' = ReceivedPacket(Unwrap(pending_packet))
          /\ IsSome(sending') => sending' = sending
          /\ (ret'.kind = "SendPacket" /\ IsSome(sending)) =>
                /\ ret'.bytes[2] = 1
                /\ ret'.bytes # OutstandingFrame ]_vars

\* a send that was never transmitted is outstanding and poll has returned
\* the ack of a buffered packet instead
C31_Witness ==
    /\ IsSome(sending)
    /\ ~IsSome(Unwrap(sending).i)
    /\ IsSome(pending_packet)
    /\ ret.op = "poll"
    /\ ret.kind = "SendPacket"

\* C32: full-byte acknowledgement: for every seqnum byte s in 0..255 of an
\* inbound non-ack frame, the seqnum byte of the auto-ack that poll
\* produces is the bitwise s XOR 1.
C32_FullByteAck ==
    [][ (poll /\ ~IsSome(pending_packet) /\ IsSome(pending_packet')) =>
          /\ ret'.kind = "SendPacket"
          /\ ret'.bytes[3] = Xor1(Unwrap(pending_packet').seqnum) ]_vars

\* C33: against a peer that answers every frame it is handed with an ack
\* carrying 1 XOR the frame's seqnum, the frames handed out by poll for the
\* first time carry the seqnums 0, 1, 0, 1, ... in this order, and a frame
\* handed out again carries the seqnum it carried the first time.
C33_AlternatingBit ==
    [][ /\ \A k \in 1..Len(codec'.emitted) : codec'.emitted[k] = (k - 1) % 2
        /\ (PollPeer /\ IsSome(sending) /\ ~Unsent /\ ret'.kind = "SendPacket"
                     /\ ret'.bytes[2] # 1) =>
              ret'.bytes[3] = OutstandingFrame[3] ]_vars

\* C34: while a send is outstanding, no call changes the range or the bytes
\* of the outstanding frame, an auto-ack encoded meanwhile lies outside
\* that range, and a poll that hands out a non-ack frame returns exactly
\* the bytes of the outstanding frame: every retransmission is
\* byte-identical to the first transmission.
C34_AckBesideOutstanding ==
    [][ /\ (IsSome(sending) /\ IsSome(sending')) =>
              /\ Unwrap(sending').r = Unwrap(sending).r
              /\ OutstandingFrame' = OutstandingFrame
        /\ (poll /\ ret'.kind = "SendPacket" /\ IsSome(sending')) =>
              \/ ret'.bytes = OutstandingFrame
              \/ /\ IsSome(pending_packet')
                 /\ ret'.bytes = AckFrameOf(ack_seqnum(Unwrap(pending_packet').seqnum))
                 /\ OutstandingFrame' = OutstandingFrame ]_vars

\* poll has just encoded an auto-ack while a frame that was handed out
\* before is outstanding: the ack is returned and the frame is in place
C34_Witness ==
    /\ IsSome(sending)
    /\ IsSome(Unwrap(sending).i)
    /\ IsSome(pending_packet)
    /\ ret.kind = "SendPacket"
    /\ ret.bytes = AckFrameOf(ack_seqnum(Unwrap(pending_packet).seqnum))
    /\ OutstandingFrame # <<>>
    /\ ret.bytes # OutstandingFrame

\* C35: a poll that returns an error for a buffered frame has taken that
\* frame out of the read buffer: fewer bytes are unread afterwards, so the
\* next poll looks at what lies behind the frame.
C35_ErrorConsumesFrame ==
    [][ (poll /\ ~IsSome(pending_packet) /\ IsSome(reading) /\ ret'.kind = "Err") =>
           Len(Unread') < Len(Unread) ]_vars

RECURSIVE Unescaped(_)
\* the bytes a run of wire bytes stands for: 3D and the byte behind it
\* stand for that byte with bit 4 set
Unescaped(bytes) ==
    IF bytes = <<>> THEN <<>>
    ELSE IF Head(bytes) = 61 /\ Len(bytes) >= 2
    THEN << BitOr(bytes[2], 16) >> \o Unescaped(SubSeq(bytes, 3, Len(bytes)))
    ELSE << Head(bytes) >> \o Unescaped(Tail(bytes))

\* C36: the read cursor stays within 0 <= start <= end <= 1024 and nothing
\* is stored beyond the 1024 bytes; received_packet returns the number n of
\* source bytes it consumed, n is smaller than the length of the input
\* only when the cursor has reached the limit of the buffer, and the call
\* stores the bytes that the first n source bytes stand for and changes
\* nothing else.
C36_BoundedReadBuffer ==
    /\ [](/\ Len(read_buf) <= READ_BUF_LEN
          /\ IsSome(reading) =>
                /\ 0 <= Unwrap(reading)[1]
                /\ Unwrap(reading)[1] <= Unwrap(reading)[2]
                /\ Unwrap(reading)[2] <= READ_BUF_LEN)
    /\ [][ (ReceiveStream /\ ~panicked') =>
              /\ ret'.kind = "Ok"
              /\ ret'.n <= codec'.given
              /\ ret'.n < codec'.given => Unwrap(reading')[2] = READ_BUF_LEN - 1
              /\ read_buf' = read_buf \o Unescaped(SubSeq(chunk_at(codec.at, codec'.given),
                                                         1, ret'.n))
              /\ Unwrap(reading')[2] = Len(read_buf')
              /\ Unwrap(reading')[1] = (IF IsSome(reading) THEN Unwrap(reading)[1] ELSE 0)
              /\ UNCHANGED << pending_packet, write_buf, sending, seqnum >> ]_vars

\* received_packet has consumed a part of its input: the buffer is full
C36_Witness ==
    /\ ret.op = "received_packet"
    /\ ret.kind = "Ok"
    /\ 0 < ret.n
    /\ ret.n < codec.given
    /\ IsSome(reading)
    /\ Unwrap(reading)[2] = READ_BUF_LEN - 1

\* C37: the space of extracted frames is used again: with every complete
\* frame polled away between the chunks of a stream of well-formed
\* frames, received_packet consumes every chunk whole.
C37_SpaceReclaimed ==
    [][ (ReceiveStream /\ ~panicked') => ret'.n = codec'.given ]_vars

\* the caller whose receiver would get the next non-ack packet, if any
Waiter ==
    { c \in Callers : facade.completion_stream = Some(c)
                      /\ facade.callers[c].st = "waiting" }

C39_FailedEncodeKeepsSession ==
    [][ \A c \in Callers, content \in FacadeContents :
          (SonyDevice_send(c, content) /\ facade'.callers[c].st = "failed") =>
             facade'.device_session = facade.device_session ]_vars

====
